---- MODULE Spec2Model ----
(***************************************************************************)
(* A model of the gitingest ingestion engine (src/src/gitingest):          *)
(* query construction, the recursive directory traversal with its budgets  *)
(* and symlink handling, the pattern matcher and the digest formatter.     *)
(*                                                                         *)
(* Text is modelled at two levels.  Names, patterns and relative paths are *)
(* sequences of one-character strings, so that matching, lower-casing and  *)
(* prefix tests are computed character by character.  The three output     *)
(* strings are TLC strings built with \o.  The box-drawing characters of   *)
(* the tree text and the grave accent of the code fences cannot be written *)
(* in a module, so each is written as one ASCII stand-in character: U+2514 *)
(* as a backslash, U+251C as "+", U+2500 as "-", U+2502 as "|", and the    *)
(* grave accent U+0060 as "'".                                             *)
(***************************************************************************)
EXTENDS Integers, Sequences, FiniteSets, TLC

(***************************************************************************)
(* Budgets.  The source sets MAX_FILES = 10_000, MAX_TOTAL_SIZE_BYTES =    *)
(* 500 MB and MAX_DIRECTORY_DEPTH = 20 (config.ts); the model scales them  *)
(* down so that every budget is reached by a small tree.  File sizes are   *)
(* counted in units (1 unit standing for 1 MB).                            *)
(***************************************************************************)
MAX_FILES == 3

MAX_TOTAL_SIZE_BYTES == 4

MAX_DIRECTORY_DEPTH == 1

\* Largest size of a generated file.
MaxFileSize == 3

(***************************************************************************)
(* Characters and names                                                    *)
(***************************************************************************)
UpperLetters == <<"A","B","C","D","E","F","G","H","I","J","K","L","M",
                  "N","O","P","Q","R","S","T","U","V","W","X","Y","Z">>

LowerLetters == <<"a","b","c","d","e","f","g","h","i","j","k","l","m",
                  "n","o","p","q","r","s","t","u","v","w","x","y","z">>

\* String.prototype.toLowerCase on one character.
ToLowerChar(c) ==
    IF \E i \in 1..26 : UpperLetters[i] = c
    THEN LowerLetters[CHOOSE i \in 1..26 : UpperLetters[i] = c]
    ELSE c

toLowerCase(s) == [i \in 1..Len(s) |-> ToLowerChar(s[i])]

\* The order String.prototype.localeCompare gives the characters used in
\* names (punctuation before digits before letters).
Digits == <<"0","1","2","3","4","5","6","7","8","9">>

CollationOrder == <<"_", "-", ".">> \o Digits \o LowerLetters \o UpperLetters

Rank(c) == CHOOSE i \in 1..Len(CollationOrder) : CollationOrder[i] = c

RECURSIVE localeCompare(_, _)
localeCompare(a, b) ==
    IF a = <<>> /\ b = <<>> THEN 0
    ELSE IF a = <<>> THEN -1
    ELSE IF b = <<>> THEN 1
    ELSE IF Rank(Head(a)) < Rank(Head(b)) THEN -1
    ELSE IF Rank(Head(a)) > Rank(Head(b)) THEN 1
    ELSE localeCompare(Tail(a), Tail(b))

startsWith(s, p) == Len(s) >= Len(p) /\ SubSeq(s, 1, Len(p)) = p

\* The characters of s as one string.
RECURSIVE Str(_)
Str(s) == IF s = <<>> THEN "" ELSE Head(s) \o Str(Tail(s))

n_root      == <<"r","o","o","t">>
n_out       == <<"o","u","t">>
n_a_md      == <<"a",".","m","d">>
n_b_py      == <<"b",".","p","y">>
n_sub       == <<"s","u","b">>
n_deep      == <<"d","e","e","p">>
n_a_ts      == <<"a",".","t","s">>
n_b_ts      == <<"b",".","t","s">>
n_c_ts      == <<"c",".","t","s">>
n_readme    == <<"R","E","A","D","M","E",".","m","d">>
n_b_txt     == <<"b",".","t","x","t">>
n_env       == <<".","e","n","v">>
n_src       == <<"s","r","c">>
n_git       == <<".","g","i","t">>
n_lnk       == <<"l","n","k">>
n_sock      == <<"s","o","c","k">>
n_gitingest == <<".","g","i","t","i","n","g","e","s","t">>
n_f(i)      == <<"f", Digits[i + 1]>>

n_nb        == <<"n","b",".","i","p","y","n","b">>
n_node_modules == <<"n","o","d","e","_","m","o","d","u","l","e","s">>
n_pycache   == <<"_","_","p","y","c","a","c","h","e","_","_">>

p_star_ts   == <<"*",".","t","s">>
p_star_pyc  == <<"*",".","p","y","c">>

(***************************************************************************)
(* Paths.  An absolute path is the sequence of its components; <<>> is     *)
(* used for "no such path".                                                *)
(***************************************************************************)
NoPath == <<>>

RECURSIVE JoinSlash(_)
JoinSlash(comps) ==
    IF comps = <<>> THEN <<>>
    ELSE IF Len(comps) = 1 THEN comps[1]
    ELSE comps[1] \o <<"/">> \o JoinSlash(Tail(comps))

basename(p) == IF p = <<>> THEN <<>> ELSE p[Len(p)]

CommonLen(a, b) ==
    LET same == {k \in 0..Len(a) : k <= Len(b) /\ SubSeq(a, 1, k) = SubSeq(b, 1, k)}
    IN  CHOOSE k \in same : \A j \in same : j <= k

\* path.relative(from, to), as characters.
relative(from, to) ==
    LET c    == CommonLen(from, to)
        ups  == [i \in 1..(Len(from) - c) |-> <<".", ".">>]
        rest == SubSeq(to, c + 1, Len(to))
    IN  JoinSlash(ups \o rest)

\* path.isAbsolute
isAbsolute(s) == s # <<>> /\ s[1] = "/"

\* An absolute path as characters.
AbsString(p) == <<"/">> \o JoinSlash(p)

(***************************************************************************)
(* JavaScript Set<string>: a duplicate-free sequence in insertion order.   *)
(***************************************************************************)
SetHas(s, x) == \E i \in 1..Len(s) : s[i] = x

SetAdd(s, x) == IF SetHas(s, x) THEN s ELSE Append(s, x)

SetDelete(s, x) == SelectSeq(s, LAMBDA y : y # x)

RECURSIVE SetAddAll(_, _)
SetAddAll(s, xs) ==
    IF xs = <<>> THEN s ELSE SetAddAll(SetAdd(s, Head(xs)), Tail(xs))

RECURSIVE SetDeleteAll(_, _)
SetDeleteAll(s, xs) ==
    IF xs = <<>> THEN s ELSE SetDeleteAll(SetDelete(s, Head(xs)), Tail(xs))

Elems(s) == {s[i] : i \in 1..Len(s)}

(***************************************************************************)
(* The filesystem: a function from the absolute paths that exist to their  *)
(* entries.  A symbolic link holds the path it points to; only the last    *)
(* component of a path handed to realpath can be a link, because the       *)
(* traversal only ever extends real paths by one entry name.  The data of  *)
(* a file is "text" (its lines are in text), "binary" (it holds a 0x00 or  *)
(* 0xFF byte), "unreadable" (opening it fails), or one of the notebook     *)
(* forms: "notebook" is well-formed JSON whose code cells are in text,     *)
(* "notebook_bad_cell" and "notebook_bad_output" are JSON with a cell type *)
(* or an output type the transcoder does not know.                         *)
(***************************************************************************)
NoToml == [valid |-> TRUE, kind |-> "absent", items |-> <<>>]

File(size, text) ==
    [kind |-> "file", size |-> size, text |-> text, entries |-> <<>>,
     target |-> NoPath, toml |-> NoToml, data |-> "text"]

Dir(entries) ==
    [kind |-> "dir", size |-> 0, text |-> <<>>, entries |-> entries,
     target |-> NoPath, toml |-> NoToml, data |-> "text"]

Link(target) ==
    [kind |-> "link", size |-> 0, text |-> <<>>, entries |-> <<>>,
     target |-> target, toml |-> NoToml, data |-> "text"]

\* A file with a 0x00 or 0xFF byte among its first 1024.
BinaryFile(size) == [File(size, <<>>) EXCEPT !.data = "binary"]

\* A file that cannot be opened for reading.
UnreadableFile(size) == [File(size, <<>>) EXCEPT !.data = "unreadable"]

\* A file holding JSON; form is one of the notebook forms, cells are the
\* sources of its code cells.
NotebookFile(size, form, cells) == [File(size, cells) EXCEPT !.data = form]

\* A socket, device or FIFO.
Other ==
    [kind |-> "other", size |-> 0, text |-> <<>>, entries |-> <<>>,
     target |-> NoPath, toml |-> NoToml, data |-> "text"]

\* A .gitingest file whose TOML document is toml.
ConfigFile(size, toml) ==
    [kind |-> "file", size |-> size, text |-> <<"[config]">>, entries |-> <<>>,
     target |-> NoPath, toml |-> toml, data |-> "text"]

exists(f, p) == p \in DOMAIN f

\* fs.realpath: NoPath when the path does not resolve (ENOENT, ELOOP).
RECURSIVE realpathN(_, _, _)
realpathN(f, p, fuel) ==
    IF ~exists(f, p) THEN NoPath
    ELSE IF f[p].kind # "link" THEN p
    ELSE IF fuel = 0 THEN NoPath
    ELSE realpathN(f, f[p].target, fuel - 1)

realpath(f, p) == realpathN(f, p, Cardinality(DOMAIN f))

\* isSafeSymlink(symlink_path, base_path) on a POSIX platform.
isSafeSymlink(f, symlink_path, base_path) ==
    LET target_path   == realpath(f, symlink_path)
        base_resolved == realpath(f, base_path)
        rel           == relative(base_resolved, target_path)
    IN  IF target_path = NoPath \/ base_resolved = NoPath THEN FALSE
        ELSE ~startsWith(rel, <<".", ".">>) /\ ~isAbsolute(rel)

(***************************************************************************)
(* matchPattern: the pattern is rewritten into a regular expression        *)
(* ("." escaped, "*" to ".*", "?" to ".") which is anchored at both ends.  *)
(* Of the characters patterns are made of here, "+" is the only one the    *)
(* rewriting leaves with its regular-expression meaning (one or more of    *)
(* the preceding atom); with no atom to repeat, RegExp throws.             *)
(***************************************************************************)
Atom(any, c, q) == [any |-> any, c |-> c, q |-> q]

RECURSIVE CompileFrom(_, _)
CompileFrom(pat, acc) ==
    IF pat = <<>> THEN [ok |-> TRUE, atoms |-> acc]
    ELSE LET c == Head(pat) IN
         IF c = "*" THEN CompileFrom(Tail(pat), Append(acc, Atom(TRUE, "", "star")))
         ELSE IF c = "?" THEN CompileFrom(Tail(pat), Append(acc, Atom(TRUE, "", "one")))
         ELSE IF c = "+" THEN
              IF acc = <<>> \/ acc[Len(acc)].q # "one"
              THEN [ok |-> FALSE, atoms |-> <<>>]
              ELSE CompileFrom(Tail(pat),
                       [acc EXCEPT ![Len(acc)].q = "plus"])
         ELSE CompileFrom(Tail(pat), Append(acc, Atom(FALSE, c, "one")))

regExpPattern(pattern) == CompileFrom(pattern, <<>>)

Hit(a, ch) == a.any \/ a.c = ch

RECURSIVE RegExpTest(_, _)
RegExpTest(atoms, s) ==
    IF atoms = <<>> THEN s = <<>>
    ELSE LET a == Head(atoms) IN
         IF a.q = "one"
         THEN s # <<>> /\ Hit(a, Head(s)) /\ RegExpTest(Tail(atoms), Tail(s))
         ELSE IF a.q = "star"
         THEN \/ RegExpTest(Tail(atoms), s)
              \/ s # <<>> /\ Hit(a, Head(s)) /\ RegExpTest(atoms, Tail(s))
         ELSE s # <<>> /\ Hit(a, Head(s))
              /\ RegExpTest(<<[a EXCEPT !.q = "star"]>> \o Tail(atoms), Tail(s))

\* "throws" when the rewritten pattern is no regular expression.
matchThrows(pattern) == ~regExpPattern(pattern).ok

matchPattern(string, pattern) ==
    regExpPattern(pattern).ok /\ RegExpTest(regExpPattern(pattern).atoms, string)

\* The first index of patterns at which the loop of shouldInclude or
\* shouldExclude ends (a match returns, a throw is caught), 0 if none.
FirstDecisive(relStr, patterns, skipEmpty) ==
    LET hits == {i \in 1..Len(patterns) :
                    /\ ~(skipEmpty /\ patterns[i] = <<>>)
                    /\ (matchThrows(patterns[i]) \/ matchPattern(relStr, patterns[i]))}
    IN  IF hits = {} THEN 0 ELSE CHOOSE i \in hits : \A j \in hits : i <= j

shouldExclude(filePath, basePath, ignorePatterns) ==
    LET relativePath == relative(basePath, filePath)
        i == FirstDecisive(relativePath, ignorePatterns, TRUE)
    IN  IF startsWith(relativePath, <<".", ".">>) \/ isAbsolute(relativePath)
        THEN TRUE
        ELSE i # 0

shouldInclude(filePath, basePath, includePatterns) ==
    LET relativePath == relative(basePath, filePath)
        i == FirstDecisive(relativePath, includePatterns, FALSE)
    IN  IF startsWith(relativePath, <<".", ".">>) \/ isAbsolute(relativePath)
        THEN FALSE
        ELSE i # 0 /\ ~matchThrows(includePatterns[i])

(***************************************************************************)
(* Queries                                                                 *)
(***************************************************************************)
\* config.ts: 10 * 1024 * 1024 bytes, in units.
MAX_FILE_SIZE == 10

\* utils/ignore_patterns.ts is not part of the sources at hand; one
\* built-in default stands for the list.
DEFAULT_IGNORE_PATTERNS == <<p_star_pyc>>

\* createIngestionQuery for the fields the engine reads.  An absent
\* optional string is "", an absent include set has has_include = FALSE.
createIngestionQuery(local_path, slug, type, subpath, max_file_size, ignore_patterns, has_include, include_patterns) ==
    [local_path       |-> local_path,
     slug             |-> slug,
     type             |-> type,
     subpath          |-> subpath,
     max_file_size    |-> IF max_file_size = 0 THEN MAX_FILE_SIZE ELSE max_file_size,
     ignore_patterns  |-> ignore_patterns,
     has_include      |-> has_include,
     include_patterns |-> include_patterns,
     user_name        |-> "",
     repo_name        |-> "",
     branch           |-> "",
     commit           |-> ""]

\* parseLocalDirPath: the source is given as an absolute path.
parseLocalDirPath(path_str) ==
    createIngestionQuery(path_str, basename(path_str), "tree", <<>>, 0,
                         <<>>, FALSE, <<>>)

IsAlnum(c) ==
    \E i \in 1..26 : UpperLetters[i] = c \/ LowerLetters[i] = c
                     \/ (i <= 10 /\ Digits[i] = c)

\* query_parser_utils.ts: /^[a-zA-Z0-9\-_./+*]+$/
isValidPattern(pattern) ==
    /\ pattern # <<>>
    /\ \A i \in 1..Len(pattern) :
          IsAlnum(pattern[i]) \/ pattern[i] \in {"-", "_", ".", "/", "+", "*"}

RECURSIVE StripLeading(_, _)
StripLeading(s, cs) ==
    IF s # <<>> /\ Head(s) \in cs THEN StripLeading(Tail(s), cs) ELSE s

RECURSIVE StripTrailing(_, _)
StripTrailing(s, cs) ==
    IF s # <<>> /\ s[Len(s)] \in cs
    THEN StripTrailing(SubSeq(s, 1, Len(s) - 1), cs) ELSE s

\* query_parser_utils.ts: pattern.trim().replace(/^\/+|\/+$/g, '')
normalizePattern(pattern) ==
    StripTrailing(StripLeading(StripTrailing(StripLeading(pattern, {" "}), {" "}),
                               {"/"}), {"/"})

\* parsePatterns on a Set: ok = FALSE stands for InvalidPatternError.
RECURSIVE parsePatternsFrom(_, _)
parsePatternsFrom(patterns, normalized) ==
    IF patterns = <<>> THEN [ok |-> TRUE, set |-> normalized]
    ELSE IF Head(patterns) = <<>> THEN parsePatternsFrom(Tail(patterns), normalized)
    ELSE IF ~isValidPattern(Head(patterns)) THEN [ok |-> FALSE, set |-> <<>>]
    ELSE parsePatternsFrom(Tail(patterns),
                           SetAdd(normalized, normalizePattern(Head(patterns))))

parsePatterns(pattern) == parsePatternsFrom(pattern, <<>>)

\* A caller's optional pattern argument.
NoPatterns == [given |-> FALSE, set |-> <<>>]

Patterns(set) == [given |-> TRUE, set |-> set]

\* parseRemoteRepo for a URL host/user/repo/<url_type>/main/<url_subpath>
\* whose branch main exists; p.source stands for the directory
\* TMP_BASE_PATH/<id>/<slug> the repository is cloned into.
parseRemoteRepo(p) ==
    [createIngestionQuery(p.source, <<"u", "s", "e", "r", "-", "r", "e", "p", "o">>, p.url_type, p.url_subpath, 0,
                          <<>>, FALSE, <<>>)
     EXCEPT !.user_name = "user", !.repo_name = "repo", !.branch = "main"]

\* parseQuery.
parseQuery(p) ==
    LET base    == IF p.url_type # "" THEN parseRemoteRepo(p)
                   ELSE parseLocalDirPath(p.source)
        ign     == parsePatterns(p.ignore_patterns.set)
        inc     == parsePatterns(p.include_patterns.set)
        ignore1 == IF p.ignore_patterns.given
                   THEN SetAddAll(DEFAULT_IGNORE_PATTERNS, ign.set)
                   ELSE DEFAULT_IGNORE_PATTERNS
        ignore2 == IF p.include_patterns.given
                   THEN SetDeleteAll(ignore1, inc.set)
                   ELSE ignore1
    IN  IF (p.ignore_patterns.given /\ ~ign.ok) \/ (p.include_patterns.given /\ ~inc.ok)
        THEN [ok |-> FALSE, query |-> base]
        ELSE [ok |-> TRUE,
              query |-> [createIngestionQuery(base.local_path, base.slug, base.type,
                             base.subpath, p.max_file_size, ignore2,
                             p.include_patterns.given, inc.set)
                         EXCEPT !.user_name = base.user_name,
                                !.repo_name = base.repo_name,
                                !.branch = base.branch,
                                !.commit = base.commit]]

\* applyPatterns(query, params); the arrays of params are the sets of
\* p.ignore_patterns and p.include_patterns.
applyPatterns(q, p) ==
    LET ignoreSet  == SetAddAll(<<>>, [i \in 1..Len(p.ignore_patterns.set) |->
                                          normalizePattern(p.ignore_patterns.set[i])])
        includeSet == SetAddAll(<<>>, [i \in 1..Len(p.include_patterns.set) |->
                                          normalizePattern(p.include_patterns.set[i])])
    IN  [createIngestionQuery(q.local_path, q.slug, q.type, q.subpath, p.max_file_size,
                              SetAddAll(q.ignore_patterns, ignoreSet),
                              IF includeSet # <<>> THEN TRUE ELSE q.has_include,
                              IF includeSet # <<>> THEN includeSet ELSE q.include_patterns)
         EXCEPT !.user_name = q.user_name,
                !.repo_name = q.repo_name,
                !.branch = q.branch,
                !.commit = q.commit]

\* The value of data.config?.ignore_patterns in a parsed .gitingest:
\* absent, one string, or an array of items, each a string or not.
TomlString(s) == [valid |-> TRUE, kind |-> "string", items |-> <<[str |-> TRUE, val |-> s]>>]

TomlArray(items) == [valid |-> TRUE, kind |-> "array", items |-> items]

TomlInvalid == [valid |-> FALSE, kind |-> "absent", items |-> <<>>]

StrItem(s) == [str |-> TRUE, val |-> s]

NonStrItem == [str |-> FALSE, val |-> <<>>]

\* The ignore_patterns of the query after applyGitingestFile(filePath, query).
applyGitingestFile(f, filePath, q) ==
    LET gitingestPath == filePath \o <<n_gitingest>>
        real          == realpath(f, gitingestPath)
        data          == f[real].toml
        valid         == SelectSeq(data.items, LAMBDA it : it.str)
        validPatterns == SetAddAll(<<>>, [i \in 1..Len(valid) |-> valid[i].val])
    IN  IF real = NoPath THEN q
        ELSE IF f[real].kind # "file" \/ ~data.valid THEN q
        ELSE IF data.kind = "absent" THEN q
        ELSE IF data.kind = "string" /\ data.items[1].val = <<>> THEN q
        ELSE IF validPatterns = <<>> THEN q
        ELSE [q EXCEPT !.ignore_patterns = SetAddAll(@, validPatterns)]

(***************************************************************************)
(* Nodes                                                                   *)
(***************************************************************************)
FileSystemNode(name, type, path_str, path) ==
    [name |-> name, type |-> type, path_str |-> path_str, path |-> path,
     size |-> 0, file_count |-> 0, dir_count |-> 0, depth |-> 0,
     children |-> <<>>]

\* sortKey of sortChildren.
sortKey(child) ==
    LET name == toLowerCase(child.name)
    IN  IF child.type = "FILE"
        THEN IF name = toLowerCase(n_readme) THEN <<0, name>>
             ELSE <<(IF startsWith(name, <<".">>) THEN 2 ELSE 1), name>>
        ELSE <<(IF startsWith(name, <<".">>) THEN 4 ELSE 3), name>>

\* The comparison function handed to Array.prototype.sort.
compareChildren(a, b) ==
    LET ka == sortKey(a)
        kb == sortKey(b)
    IN  IF ka[1] # kb[1] THEN ka[1] - kb[1] ELSE localeCompare(ka[2], kb[2])

\* Array.prototype.sort is stable: x goes behind the elements not above it.
InsertSorted(sorted, x) ==
    LET k == Cardinality({j \in 1..Len(sorted) : compareChildren(sorted[j], x) <= 0})
    IN  SubSeq(sorted, 1, k) \o <<x>> \o SubSeq(sorted, k + 1, Len(sorted))

RECURSIVE SortFrom(_, _)
SortFrom(rest, sorted) ==
    IF rest = <<>> THEN sorted
    ELSE SortFrom(Tail(rest), InsertSorted(sorted, Head(rest)))

\* sortChildren with the sort left out.
childrenLeftUnsorted(node) == node

sortChildren(node) == [node EXCEPT !.children = SortFrom(node.children, <<>>)]

\* FileSystemStats
FileSystemStats == [visited |-> {}, total_files |-> 0, total_size |-> 0]

\* The depth check alone, the two counters left out.
limitExceededByDepthOnly(st, depth) ==
    depth > MAX_DIRECTORY_DEPTH

\* lines 284-301
limitExceeded(st, depth) ==
    \/ depth > MAX_DIRECTORY_DEPTH
    \/ st.total_files >= MAX_FILES
    \/ st.total_size >= MAX_TOTAL_SIZE_BYTES

\* The size pre-check with >= for >.
wouldReachTotalSize(st, file_size) ==
    st.total_size + file_size >= MAX_TOTAL_SIZE_BYTES

\* processFile: the size pre-check and the count post-check.
wouldExceedTotalSize(st, file_size) ==
    st.total_size + file_size > MAX_TOTAL_SIZE_BYTES

countFile(st, file_size) ==
    [st EXCEPT !.total_files = @ + 1, !.total_size = @ + file_size]

\* The count post-check with >= for >.
fileLimitReachedEarly(st) == st.total_files >= MAX_FILES

fileLimitReached(st) == st.total_files > MAX_FILES

\* processFile, lines 259-267: the FILE node of an accepted file.
fileChild(filePath, parent_node, local_path, file_size) ==
    [FileSystemNode(basename(filePath), "FILE", relative(local_path, filePath),
                    filePath)
     EXCEPT !.size = file_size, !.file_count = 1, !.depth = parent_node.depth + 1]

\* attachFile without the fold of the size into the parent.
attachFileSizeDropped(parent_node, child) ==
    [parent_node EXCEPT !.children   = Append(@, child),
                        !.file_count = @ + 1]

\* processFile, lines 269-271.
attachFile(parent_node, child) ==
    [parent_node EXCEPT !.children   = Append(@, child),
                        !.size       = @ + child.size,
                        !.file_count = @ + 1]

\* processNode, lines 199-211: the node of a child directory.
childDirectory(node, targetPath, symlink_path, local_path) ==
    LET plain == [FileSystemNode(basename(targetPath), "DIRECTORY",
                                 relative(local_path, targetPath), targetPath)
                  EXCEPT !.depth = node.depth + 1]
    IN  IF symlink_path # NoPath
        THEN [plain EXCEPT !.name = basename(symlink_path),
                           !.path_str = AbsString(symlink_path)]
        ELSE plain

\* attachDirectory that does not count the child itself.
attachDirectoryUncounted(node, child) ==
    [node EXCEPT !.children   = Append(@, child),
                 !.size       = @ + child.size,
                 !.file_count = @ + child.file_count,
                 !.dir_count  = @ + child.dir_count]

\* processNode, lines 214-217.
attachDirectory(node, child) ==
    [node EXCEPT !.children   = Append(@, child),
                 !.size       = @ + child.size,
                 !.file_count = @ + child.file_count,
                 !.dir_count  = @ + 1 + child.dir_count]

(***************************************************************************)
(* The digest formatter                                                    *)
(***************************************************************************)
RECURSIVE JoinStrings(_, _)
JoinStrings(strs, sep) ==
    IF strs = <<>> THEN ""
    ELSE IF Len(strs) = 1 THEN strs[1]
    ELSE strs[1] \o sep \o JoinStrings(Tail(strs), sep)

\* isTextFile: a file that cannot be read, or that shows a 0x00 or 0xFF
\* byte, is no text file; reading with the first encoding, utf-8, never
\* throws on the bytes themselves.
isTextFile(f, filePath) == f[filePath].data \notin {"binary", "unreadable"}

\* path.extname(this.path) === ".ipynb"
isNotebookPath(filePath) ==
    Len(basename(filePath)) > 6
    /\ SubSeq(basename(filePath), Len(basename(filePath)) - 5, Len(basename(filePath)))
           = <<".", "i", "p", "y", "n", "b">>

\* The cells of processNotebook joined by blank lines, as lines.
RECURSIVE cellLines(_)
cellLines(cells) ==
    IF cells = <<>> THEN <<>>
    ELSE IF Head(cells) = "" THEN cellLines(Tail(cells))
    ELSE <<"", Head(cells)>> \o cellLines(Tail(cells))

\* processNotebook: ok = FALSE stands for a throw, text is then the
\* error as a template string prints it.
processNotebook(f, filePath) ==
    LET form == f[filePath].data
    IN  IF form = "notebook"
        THEN [ok |-> TRUE,
              lines |-> <<"# Jupyter notebook converted to Python script.">>
                        \o cellLines(f[filePath].text) \o <<"">>]
        ELSE IF form = "notebook_bad_cell"
        THEN [ok |-> FALSE, lines |-> <<"Error: Unknown cell type: x">>]
        ELSE IF form = "notebook_bad_output"
        THEN [ok |-> FALSE, lines |-> <<"Error: Unknown output type: x">>]
        ELSE [ok |-> FALSE,
              lines |-> <<"InvalidNotebookError: Invalid JSON in notebook: "
                          \o Str(AbsString(filePath))>>]

\* The content getter of a FILE node, as the lines of the string it
\* returns; the file at node.path is read when the formatter asks.
\* The file is read as it is, with no look at what it holds.
contentLinesUnguarded(f, node) == f[node.path].text

contentLines(f, node) ==
    IF ~isTextFile(f, node.path) THEN <<"[Non-text file]">>
    ELSE IF isNotebookPath(node.path)
    THEN IF processNotebook(f, node.path).ok
         THEN processNotebook(f, node.path).lines
         ELSE <<"Error processing notebook: " \o processNotebook(f, node.path).lines[1]>>
    ELSE f[node.path].text

content(f, node) == JoinStrings(contentLines(f, node), "\n")

\* content.split('\n').length
lineCount(f, node) ==
    IF contentLines(f, node) = <<>> THEN 1 ELSE Len(contentLines(f, node))

\* node.name.split('.').pop() || ''
extension(name) ==
    LET dots == {i \in 1..Len(name) : name[i] = "."}
        last == IF dots = {} THEN 0 ELSE CHOOSE i \in dots : \A j \in dots : j <= i
    IN  SubSeq(name, last + 1, Len(name))

RECURSIVE gatherFileContents(_, _)
gatherFileContents(f, node) ==
    IF node.type = "FILE"
    THEN "### " \o Str(node.path_str) \o "\n'''" \o Str(extension(node.name))
         \o "\n" \o content(f, node) \o "\n'''\n"
    ELSE JoinStrings([i \in 1..Len(node.children) |->
                         gatherFileContents(f, node.children[i])], "\n")

\* currentPrefix that ignores is_last.
currentPrefixAlwaysMiddle(is_last) == "+-- "

\* The first string stands for U+2514 U+2500 U+2500 and a space, the
\* second for U+251C U+2500 U+2500 and a space.
currentPrefix(is_last) == IF is_last THEN "\\-- " ELSE "+-- "

\* "|   " stands for U+2502 and three spaces.
newPrefix(prefix, is_last) == prefix \o (IF is_last THEN "    " ELSE "|   ")

RECURSIVE ConcatStrings(_)
ConcatStrings(strs) ==
    IF strs = <<>> THEN "" ELSE Head(strs) \o ConcatStrings(Tail(strs))

RECURSIVE createTreeStructure(_, _, _, _)
createTreeStructure(q, node, prefix, is_last) ==
    LET name         == IF node.name = <<>> THEN q.slug ELSE node.name
        display_name == Str(name) \o (IF node.type = "DIRECTORY" THEN "/" ELSE "")
        line         == prefix \o currentPrefix(is_last) \o display_name \o "\n"
        n            == Len(node.children)
    IN  IF node.type = "DIRECTORY" /\ n > 0
        THEN line \o ConcatStrings([i \in 1..n |->
                         createTreeStructure(q, node.children[i],
                                             newPrefix(prefix, is_last), i = n)])
        ELSE line

createSummaryPrefix(q, single_file) ==
    LET first  == IF q.user_name # ""
                  THEN <<"Repository: " \o q.user_name \o "/" \o q.repo_name>>
                  ELSE <<"Directory: " \o Str(q.slug)>>
        second == IF q.commit # "" THEN <<"Commit: " \o q.commit>>
                  ELSE IF q.branch # "" /\ q.branch \notin {"main", "master"}
                  THEN <<"Branch: " \o q.branch>>
                  ELSE <<>>
        third  == IF q.subpath # <<>> /\ ~single_file
                  THEN <<"Subpath: " \o Str(AbsString(q.subpath))>>
                  ELSE <<>>
    IN  JoinStrings(first \o second \o third, "\n") \o "\n"

\* (n / unit).toFixed(1) for a whole number n.
toFixed1(n, unit) ==
    LET tenths == (n * 10 + unit \div 2) \div unit
    IN  ToString(tenths \div 10) \o "." \o ToString(tenths % 10)

formatTokenCount(text) ==
    LET total_tokens == (Len(text) + 3) \div 4
    IN  IF total_tokens >= 1000000 THEN toFixed1(total_tokens, 1000000) \o "M"
        ELSE IF total_tokens >= 1000 THEN toFixed1(total_tokens, 1000) \o "k"
        ELSE ToString(total_tokens)

formatNode(f, node, q) ==
    LET is_single_file == node.type = "FILE"
        head    == createSummaryPrefix(q, is_single_file)
        counts  == IF node.type = "DIRECTORY"
                   THEN "Files analyzed: " \o ToString(node.file_count) \o "\n"
                   ELSE "File: " \o Str(node.name) \o "\n"
                        \o "Lines: " \o ToString(lineCount(f, node)) \o "\n"
        tree    == "Directory structure:\n" \o createTreeStructure(q, node, "", TRUE)
        cont    == gatherFileContents(f, node)
        summary == head \o counts \o "\nEstimated tokens: "
                   \o formatTokenCount(tree \o cont)
    IN  <<summary, tree, cont>>

(***************************************************************************)
(* The filesystems and the calls the model starts from                     *)
(***************************************************************************)
Root == <<n_root>>

Outside == <<n_out>>

OneLine == <<"x">>

\* The injective sequences over the set S.
Orderings(S) ==
    {s \in [1..Cardinality(S) -> S] : \A i, j \in 1..Cardinality(S) : s[i] = s[j] => i = j}

\* A flat directory: root/f1 .. root/fn, file fi of size sizes[i].
FlatFs(sizes) ==
    (Root :> Dir([i \in 1..Len(sizes) |-> n_f(i)]))
    @@ [p \in {Root \o <<n_f(i)>> : i \in 1..Len(sizes)} |->
           File(sizes[CHOOSE i \in 1..Len(sizes) : p = Root \o <<n_f(i)>>], OneLine)]

FlatFamily ==
    {FlatFs(sizes) : sizes \in UNION {[1..n -> 0..MaxFileSize] : n \in 1..(MAX_FILES + 1)}}

\* root/{a.md, sub/{b.py}} with the two listing orders of the root.
EndToEndFs(order) ==
    (Root :> Dir(order))
    @@ (Root \o <<n_a_md>> :> File(1, <<"# hi">>))
    @@ (Root \o <<n_sub>> :> Dir(<<n_b_py>>))
    @@ (Root \o <<n_sub, n_b_py>> :> File(1, <<"print(1)">>))

EndToEndFamily == {EndToEndFs(order) : order \in Orderings({n_a_md, n_sub})}

\* root/{README.md, b.txt, .env, src/, .git/} in every listing order.
SortFs(order) ==
    (Root :> Dir(order))
    @@ (Root \o <<n_readme>> :> File(1, OneLine))
    @@ (Root \o <<n_b_txt>> :> File(1, OneLine))
    @@ (Root \o <<n_env>> :> File(0, <<>>))
    @@ (Root \o <<n_src>> :> Dir(<<>>))
    @@ (Root \o <<n_git>> :> Dir(<<>>))

SortFamily ==
    {SortFs(order) : order \in Orderings({n_readme, n_b_txt, n_env, n_src, n_git})}

\* root/{a.ts, sub/{b.ts, deep/{c.ts}}} without the root itself, and a
\* directory beside the root.
NestedBase ==
    (Root \o <<n_a_ts>> :> File(1, OneLine))
    @@ (Root \o <<n_sub>> :> Dir(<<n_b_ts, n_deep>>))
    @@ (Root \o <<n_sub, n_b_ts>> :> File(1, OneLine))
    @@ (Root \o <<n_sub, n_deep>> :> Dir(<<n_c_ts>>))
    @@ (Root \o <<n_sub, n_deep, n_c_ts>> :> File(1, OneLine))
    @@ (Outside :> Dir(<<n_a_md>>))
    @@ (Outside \o <<n_a_md>> :> File(1, OneLine))

NestedFs(order) == (Root :> Dir(order)) @@ NestedBase

NestedFamily == {NestedFs(order) : order \in Orderings({n_a_ts, n_sub})}

\* The nested tree with a symbolic link lnk in directory dir, listed
\* first or last there, pointing to target.
LinkTargets ==
    {Root, Root \o <<n_sub>>, Root \o <<n_a_ts>>, Root \o <<n_sub, n_deep>>,
     Outside, Outside \o <<n_a_md>>, Root \o <<n_sock>>, Root \o <<n_lnk>>}

LinkFs(dir, first, target) ==
    LET plain == NestedFs(<<n_a_ts, n_sub>>)
        order == IF first THEN <<n_lnk>> \o plain[dir].entries
                 ELSE Append(plain[dir].entries, n_lnk)
    IN  (dir :> Dir(order)) @@ (dir \o <<n_lnk>> :> Link(target)) @@ plain

LinkFamily ==
    {LinkFs(dir, first, target) :
        dir \in {Root, Root \o <<n_sub>>}, first \in BOOLEAN, target \in LinkTargets}

\* A root that holds nothing but a link to itself.
LoopFs == (Root :> Dir(<<n_lnk>>)) @@ (Root \o <<n_lnk>> :> Link(Root))

\* A root with an entry that is neither a file nor a directory.
SocketFs(order) ==
    (Root :> Dir(order))
    @@ (Root \o <<n_a_md>> :> File(1, OneLine))
    @@ (Root \o <<n_sock>> :> Other)

SocketFamily == {SocketFs(order) : order \in Orderings({n_a_md, n_sock})}

\* The nested tree with a .gitingest file at the root.
Tomls ==
    {TomlString(n_sub), TomlString(<<>>), TomlInvalid, NoToml,
     TomlArray(<<StrItem(p_star_ts), NonStrItem>>), TomlArray(<<NonStrItem>>)}

ConfigFs(toml) ==
    (Root :> Dir(<<n_gitingest, n_a_ts, n_sub>>))
    @@ (Root \o <<n_gitingest>> :> ConfigFile(1, toml))
    @@ NestedBase

ConfigFamily == {ConfigFs(toml) : toml \in Tomls}

\* root/{.git/{a.md}, sub/{node_modules/{a.md}}}
GitFs ==
    (Root :> Dir(<<n_git, n_sub>>))
    @@ (Root \o <<n_git>> :> Dir(<<n_a_md>>))
    @@ (Root \o <<n_git, n_a_md>> :> File(1, OneLine))
    @@ (Root \o <<n_sub>> :> Dir(<<n_node_modules>>))
    @@ (Root \o <<n_sub, n_node_modules>> :> Dir(<<n_a_md>>))
    @@ (Root \o <<n_sub, n_node_modules, n_a_md>> :> File(1, OneLine))

\* The default of the setting gitingest.ignorePatterns.
ExtensionIgnoreDefault ==
    << <<"*","*","/">> \o n_git \o <<"/","*","*">>,
       <<"*","*","/">> \o n_node_modules \o <<"/","*","*">>,
       <<"*","*","/">> \o n_pycache \o <<"/","*","*">> >>

\* Files that are not plain text, each under its name: a notebook that is
\* not JSON, one with an unknown cell type, one with an unknown output
\* type, a notebook in order, a binary file and a file that cannot be
\* read.
OddFiles ==
    {[name |-> n_nb, file |-> File(1, OneLine)],
     [name |-> n_nb, file |-> NotebookFile(1, "notebook_bad_cell", <<>>)],
     [name |-> n_nb, file |-> NotebookFile(1, "notebook_bad_output", <<>>)],
     [name |-> n_nb, file |-> NotebookFile(1, "notebook", OneLine)],
     [name |-> n_b_txt, file |-> BinaryFile(1)],
     [name |-> n_b_txt, file |-> UnreadableFile(1)]}

\* root/{<odd file>, a.md}
OddFileFs(odd) ==
    (Root :> Dir(<<odd.name, n_a_md>>))
    @@ (Root \o <<odd.name>> :> odd.file)
    @@ (Root \o <<n_a_md>> :> File(1, OneLine))

\* The arguments of one call: the source, the size limit and the patterns.
\* entry names the function that builds the query: parseQuery (command
\* line, ingestAsync) or applyPatterns (editor extension).  url_type is ""
\* for a local source.
Call(source, max_file_size, include_patterns, ignore_patterns) ==
    [source |-> source, max_file_size |-> max_file_size,
     include_patterns |-> include_patterns, ignore_patterns |-> ignore_patterns,
     entry |-> "parseQuery", url_type |-> "", url_subpath |-> <<>>]

\* ingest_async of the extension with the settings maxFileSize,
\* includePatterns and ignorePatterns.
ExtensionCall(source, max_file_size, include_patterns, ignore_patterns) ==
    [Call(source, max_file_size, Patterns(include_patterns), Patterns(ignore_patterns))
     EXCEPT !.entry = "applyPatterns"]

\* ingestAsync on a repository URL, the clone being at source.
RemoteCall(source, url_type, url_subpath) ==
    [Call(source, 0, NoPatterns, NoPatterns)
     EXCEPT !.url_type = url_type, !.url_subpath = url_subpath]

PlainCall == Call(Root, 0, NoPatterns, NoPatterns)

PatternCalls ==
    {Call(Root, 0, inc, ign) :
        inc \in {NoPatterns, Patterns(<<p_star_ts>>), Patterns(<<>>)},
        ign \in {NoPatterns, Patterns(<<p_star_ts>>), Patterns(<<n_sub>>),
                 Patterns(<<<<"a", "|", "b">>>>), Patterns(<<<<"a", "@", "b">>>>)}}

Scenario(f, call) == [fs |-> f, call |-> call]

\* Calls of the editor extension.
ExtensionScenarios ==
    {Scenario(NestedFs(<<n_a_ts, n_sub>>), ExtensionCall(Root, 0, inc, ign)) :
        inc \in {<<>>, <<p_star_ts>>}, ign \in {<<>>, <<p_star_ts>>}}
    \cup {Scenario(GitFs, ExtensionCall(Root, 0, <<>>, ExtensionIgnoreDefault))}

\* URLs of a file, an empty file, a directory and a path that the clone
\* does not hold, given as blob; and of a directory given as tree.
SingleResourceScenarios ==
    {Scenario(SortFs(<<n_readme, n_b_txt, n_env, n_src, n_git>>), RemoteCall(Root, "blob", <<name>>)) :
        name \in {n_readme, n_env, n_src, n_sock}}
    \cup {Scenario(SortFs(<<n_readme, n_b_txt, n_env, n_src, n_git>>), RemoteCall(Root, "tree", <<n_src>>))}

\* Each odd file ingested with its directory and by itself.
OddFileScenarios ==
    {Scenario(OddFileFs(odd), Call(source, 0, NoPatterns, NoPatterns)) :
        odd \in OddFiles, source \in {Root, Root \o <<n_nb>>, Root \o <<n_b_txt>>}}

\* The URL of the directory sub of a repository; sub holds a link to a
\* file of the clone beside sub, to a file outside the clone, or to a
\* directory of its own.
SubpathLinkScenarios ==
    {Scenario(LinkFs(Root \o <<n_sub>>, TRUE, target), RemoteCall(Root, "tree", <<n_sub>>)) :
        target \in {Root \o <<n_a_ts>>, Outside \o <<n_a_md>>, Root \o <<n_sub, n_deep>>}}

\* root/{a.ts, sub/{deep/{c.ts}, b.ts}, a.md}: a file of the given size,
\* then a directory with a directory listed before a file, then an empty
\* file.
PruneFs(size) ==
    (Root :> Dir(<<n_a_ts, n_sub, n_a_md>>))
    @@ (Root \o <<n_a_ts>> :> File(size, OneLine))
    @@ (Root \o <<n_sub>> :> Dir(<<n_deep, n_b_ts>>))
    @@ (Root \o <<n_sub, n_deep>> :> Dir(<<n_c_ts>>))
    @@ (Root \o <<n_sub, n_deep, n_c_ts>> :> File(1, OneLine))
    @@ (Root \o <<n_sub, n_b_ts>> :> File(1, OneLine))
    @@ (Root \o <<n_a_md>> :> File(0, <<>>))

PruneScenarios ==
    {Scenario(PruneFs(size), PlainCall) : size \in {1, MAX_TOTAL_SIZE_BYTES}}

Scenarios ==
    {Scenario(f, Call(Root, 2, NoPatterns, NoPatterns)) : f \in FlatFamily}
    \cup {Scenario(f, PlainCall) :
             f \in EndToEndFamily \cup SortFamily \cup LinkFamily \cup {LoopFs}
                   \cup SocketFamily \cup ConfigFamily}
    \cup {Scenario(f, call) : f \in NestedFamily, call \in PatternCalls}
    \cup ExtensionScenarios
    \cup {Scenario(NestedFs(<<n_a_ts, n_sub>>), Call(source, 0, NoPatterns, NoPatterns)) :
             source \in {Root \o <<n_a_ts>>, Root \o <<n_sock>>, Root \o <<n_sub>>}}
    \cup {Scenario(SocketFs(<<n_a_md, n_sock>>), Call(source, 0, NoPatterns, NoPatterns)) :
             source \in {Root \o <<n_sock>>}}
    \cup {Scenario(SortFs(<<n_readme, n_b_txt, n_env, n_src, n_git>>),
                   Call(source, 0, NoPatterns, NoPatterns)) :
             source \in {Root \o <<n_env>>, Root \o <<n_readme>>}}
    \cup SingleResourceScenarios
    \cup OddFileScenarios
    \cup SubpathLinkScenarios
    \cup PruneScenarios

\* Two calls over one filesystem.
PairScenario(f, call, other) == [fs |-> f, call |-> call, other |-> other]

PairScenarios ==
    {PairScenario(NestedFs(<<n_a_ts, n_sub>>), PlainCall, other) :
        other \in {Call(Root, 0, NoPatterns, Patterns(<<n_sub>>)),
                   Call(Root \o <<n_sub>>, 0, NoPatterns, NoPatterns)}}
    \cup {PairScenario(FlatFs([i \in 1..(MAX_FILES + 1) |-> 1]),
                       Call(Root, 2, NoPatterns, NoPatterns), PlainCall)}

(***************************************************************************)
(* State.  One call of ingestQuery at a time; the call is run a second     *)
(* time over the unchanged filesystem once it has returned.                *)
(***************************************************************************)
VARIABLES
    fs,            \* the filesystem
    call,          \* the arguments the query is built from
    query,         \* the IngestionQuery
    pc,            \* where the call stands
    stack,         \* the processNode calls in progress, innermost last
    stats,         \* the FileSystemStats of the call
    readdirs,      \* how many times the call has listed a directory
    root_node,     \* the node handed to formatNode
    result,        \* the triple the call returned
    run,           \* 1 for the first call, 2 for the second
    first_result,  \* the triple the first call returned
    error,         \* the error the call threw, "" if none
    parked,        \* a second call, suspended at one of its awaits
    args,          \* the arguments of a function applied by itself
    returned,      \* what that function returned
    tmp,           \* the directories under TMP_BASE_PATH
    calls,         \* the ingestAsync calls in progress
    race           \* one call of a function wrapped by asyncTimeout

\* The state outside ingestQuery.
matchVars == <<args, returned>>

remoteVars == <<tmp, calls>>

others == <<matchVars, remoteVars, race>>

vars == <<fs, call, query, pc, stack, stats, readdirs, root_node, result, run,
          first_result, error, parked, others>>

\* No function is applied by itself.
NoArgs == [function |-> "none"]

NoReturn == [function |-> "none"]

MatchIdle == args = NoArgs /\ returned = NoReturn

\* No ingestAsync call, nothing under TMP_BASE_PATH.
RemoteIdle == tmp = {} /\ calls = <<>>

\* No wrapped function has been called.
NoRace == [state |-> "none"]

RaceIdle == race = NoRace

OthersIdle == MatchIdle /\ RemoteIdle /\ RaceIdle

NoNode == FileSystemNode(<<>>, "FILE", <<>>, NoPath)

NoResult == <<"", "", "">>

Frame(node, entries) == [node |-> node, entries |-> entries, idx |-> 1]

\* A call that has not started.
Waiting(c) ==
    [call |-> c, query |-> parseLocalDirPath(NoPath), pc |-> "parse", stack |-> <<>>,
     stats |-> FileSystemStats, readdirs |-> 0, root_node |-> NoNode,
     result |-> NoResult, run |-> 1, first_result |-> NoResult, error |-> ""]

\* No second call.
NoCall == [Waiting(PlainCall) EXCEPT !.pc = "none"]

Init ==
    /\ \/ \E s \in Scenarios : fs = s.fs /\ call = s.call /\ parked = NoCall
       \/ \E s \in PairScenarios :
             fs = s.fs /\ call = s.call /\ parked = Waiting(s.other)
    /\ query = parseLocalDirPath(NoPath)
    /\ pc = "parse"
    /\ stack = <<>>
    /\ stats = FileSystemStats
    /\ readdirs = 0
    /\ root_node = NoNode
    /\ result = NoResult
    /\ run = 1
    /\ first_result = NoResult
    /\ error = ""
    /\ OthersIdle

\* No call of ingestQuery is under way.
IngestIdle ==
    /\ fs = (Root :> Dir(<<>>))
    /\ call = PlainCall
    /\ parked = NoCall
    /\ query = parseLocalDirPath(NoPath)
    /\ pc = "idle"
    /\ stack = <<>>
    /\ stats = FileSystemStats
    /\ readdirs = 0
    /\ root_node = NoNode
    /\ result = NoResult
    /\ run = 1
    /\ first_result = NoResult
    /\ error = ""

ingestVars == <<fs, call, query, pc, stack, stats, readdirs, root_node, result, run, first_result, error, parked>>

(***************************************************************************)
(* parseQuery, then the head of ingestQuery                                *)
(***************************************************************************)
ParseQuery ==
    /\ pc = "parse"
    /\ call.entry = "parseQuery"
    /\ parseQuery(call).ok
    /\ query' = parseQuery(call).query
    /\ pc' = "apply"
    /\ UNCHANGED <<fs, call, stack, stats, readdirs, root_node, result, run, first_result, error, parked, others>>

ParseQueryThrows ==
    /\ pc = "parse"
    /\ call.entry = "parseQuery"
    /\ ~parseQuery(call).ok
    /\ pc' = "failed"
    /\ error' = "InvalidPatternError"
    /\ UNCHANGED <<fs, call, query, stack, stats, readdirs, root_node, result, run,
                   first_result, parked, others>>

\* extension.ts, ingest_async: parseLocalDirPath, then applyPatterns.
ApplyPatterns ==
    /\ pc = "parse"
    /\ call.entry = "applyPatterns"
    /\ query' = applyPatterns(parseLocalDirPath(call.source), call)
    /\ pc' = "apply"
    /\ UNCHANGED <<fs, call, stack, stats, readdirs, root_node, result, run, first_result, error, parked, others>>

\* ingestQuery line 36
ingestTarget == query.local_path \o query.subpath

ApplyGitingestFile ==
    /\ pc = "apply"
    /\ query' = applyGitingestFile(fs, ingestTarget, query)
    /\ pc' = "resolve"
    /\ UNCHANGED <<fs, call, stack, stats, readdirs, root_node, result, run, first_result, error, parked, others>>

\* fs.stat follows links.
statKind(p) == IF realpath(fs, p) = NoPath THEN "none" ELSE fs[realpath(fs, p)].kind

\* ingestQuery lines 40-44
NotFound ==
    /\ pc = "resolve"
    /\ statKind(ingestTarget) = "none"
    /\ pc' = "failed"
    /\ error' = "cannot be found"
    /\ UNCHANGED <<fs, call, query, stack, stats, readdirs, root_node, result, run,
                   first_result, parked, others>>

\* ingestQuery lines 55-62
singleFileNode ==
    [FileSystemNode(basename(ingestTarget), "FILE",
                    relative(query.local_path, ingestTarget), ingestTarget)
     EXCEPT !.size = fs[realpath(fs, ingestTarget)].size, !.file_count = 1]

\* The single file is returned without a look at its content.
SingleFileUnchecked ==
    /\ pc = "resolve"
    /\ statKind(ingestTarget) = "file"
    /\ root_node' = singleFileNode
    /\ result' = formatNode(fs, singleFileNode, query)
    /\ pc' = "done"
    /\ UNCHANGED <<fs, call, query, stack, stats, readdirs, run, first_result, error, parked, others>>

\* ingestQuery lines 48-69
SingleFile ==
    /\ pc = "resolve"
    /\ statKind(ingestTarget) = "file"
    /\ content(fs, singleFileNode) # ""
    /\ root_node' = singleFileNode
    /\ result' = formatNode(fs, singleFileNode, query)
    /\ pc' = "done"
    /\ UNCHANGED <<fs, call, query, stack, stats, readdirs, run, first_result, error, parked, others>>

SingleFileThrows ==
    /\ pc = "resolve"
    /\ IF statKind(ingestTarget) = "file"
       THEN content(fs, singleFileNode) = ""
       ELSE query.type = "blob" /\ statKind(ingestTarget) # "none"
    /\ pc' = "failed"
    /\ error' = IF statKind(ingestTarget) = "file" THEN "has no content"
                ELSE "is not a file"
    /\ UNCHANGED <<fs, call, query, stack, stats, readdirs, root_node, result, run,
                   first_result, parked, others>>

\* ingestQuery lines 71-76
rootNode ==
    FileSystemNode(basename(ingestTarget), "DIRECTORY",
                   relative(query.local_path, ingestTarget), ingestTarget)

\* One FileSystemStats object kept across calls instead of a new one.
sharedStatsTracker == stats

\* ingestQuery line 78
stats_tracker == FileSystemStats

\* fs.readdir of a path that is not a directory throws.
readdirThrows(p) == statKind(p) # "dir"

readdir(p) == fs[realpath(fs, p)].entries

\* ingestQuery lines 71-82 up to the entry of processNode on the root: it
\* lists the root, or returns at once when a limit is already exceeded.
StartDirectory ==
    /\ pc = "resolve"
    /\ query.type # "blob"
    /\ statKind(ingestTarget) = "dir"
    /\ stats' = stats_tracker
    /\ IF limitExceeded(stats_tracker, rootNode.depth)
       THEN /\ root_node' = rootNode
            /\ result' = formatNode(fs, rootNode, query)
            /\ pc' = "done"
            /\ UNCHANGED <<stack, readdirs>>
       ELSE /\ stack' = <<Frame(rootNode, readdir(ingestTarget))>>
            /\ readdirs' = readdirs + 1
            /\ pc' = "walk"
            /\ UNCHANGED <<root_node, result>>
    /\ UNCHANGED <<fs, call, query, run, first_result, error, parked, others>>

\* A root that is neither a file nor a directory: readdir throws.
StartThrows ==
    /\ pc = "resolve"
    /\ query.type # "blob"
    /\ statKind(ingestTarget) = "other"
    /\ pc' = "failed"
    /\ error' = "ENOTDIR"
    /\ UNCHANGED <<fs, call, query, stack, stats, readdirs, root_node, result, run,
                   first_result, parked, others>>

(***************************************************************************)
(* processNode.  Each step of the loop over the entries of the innermost   *)
(* directory is one action; the guards are the conditions of lines 166-220 *)
(* in their order.                                                         *)
(***************************************************************************)
Top == stack[Len(stack)]

InLoop == pc = "walk" /\ Top.idx <= Len(Top.entries)

entryName == Top.entries[Top.idx]

\* line 161
entryPath == Top.node.path \o <<entryName>>

\* entry.isSymbolicLink()
entryIsLink == fs[entryPath].kind = "link"

entryIsSafe == ~entryIsLink \/ isSafeSymlink(fs, entryPath, query.local_path)

\* lines 163-174
symlink_path == IF entryIsLink THEN entryPath ELSE NoPath

targetPath == IF entryIsLink THEN realpath(fs, entryPath) ELSE entryPath

entryIsFresh == entryIsSafe /\ targetPath \notin stats.visited

\* lines 183-189
entryIsExcluded == shouldExclude(targetPath, query.local_path, query.ignore_patterns)

entryIsIncluded ==
    query.has_include => shouldInclude(targetPath, query.local_path, query.include_patterns)

entryIsKept == entryIsFresh /\ ~entryIsExcluded /\ entryIsIncluded

\* line 181
visit(st) == [st EXCEPT !.visited = @ \cup {targetPath}]

\* The loop goes on with the next entry of the innermost directory.
Continue(node) ==
    stack' = [stack EXCEPT ![Len(stack)] = [@ EXCEPT !.node = node, !.idx = @ + 1]]

\* lines 166-170
SkipUnsafeSymlink ==
    /\ InLoop
    /\ ~entryIsSafe
    /\ Continue(Top.node)
    /\ UNCHANGED <<fs, call, query, pc, stats, readdirs, root_node, result, run,
                   first_result, error, parked, others>>

\* lines 176-179
SkipVisited ==
    /\ InLoop
    /\ entryIsSafe
    /\ targetPath \in stats.visited
    /\ Continue(Top.node)
    /\ UNCHANGED <<fs, call, query, pc, stats, readdirs, root_node, result, run,
                   first_result, error, parked, others>>

\* lines 181-185
SkipExcluded ==
    /\ InLoop
    /\ entryIsFresh
    /\ entryIsExcluded
    /\ stats' = visit(stats)
    /\ Continue(Top.node)
    /\ UNCHANGED <<fs, call, query, pc, readdirs, root_node, result, run, first_result, error, parked, others>>

\* lines 187-189
SkipNotIncluded ==
    /\ InLoop
    /\ entryIsFresh
    /\ ~entryIsExcluded
    /\ ~entryIsIncluded
    /\ stats' = visit(stats)
    /\ Continue(Top.node)
    /\ UNCHANGED <<fs, call, query, pc, readdirs, root_node, result, run, first_result, error, parked, others>>

fileSize == fs[targetPath].size

\* processFile, lines 246-249: the file would exceed the total size.
ProcessFileSkipsSize ==
    /\ InLoop
    /\ entryIsKept
    /\ fs[targetPath].kind = "file"
    /\ wouldExceedTotalSize(visit(stats), fileSize)
    /\ stats' = visit(stats)
    /\ Continue(Top.node)
    /\ UNCHANGED <<fs, call, query, pc, readdirs, root_node, result, run, first_result, error, parked, others>>

\* processFile, lines 251-257: the file is counted and then dropped.
ProcessFileOverLimit ==
    /\ InLoop
    /\ entryIsKept
    /\ fs[targetPath].kind = "file"
    /\ ~wouldExceedTotalSize(visit(stats), fileSize)
    /\ fileLimitReached(countFile(visit(stats), fileSize))
    /\ stats' = countFile(visit(stats), fileSize)
    /\ Continue(Top.node)
    /\ UNCHANGED <<fs, call, query, pc, readdirs, root_node, result, run, first_result, error, parked, others>>

\* processFile, lines 251-271: the file becomes a child.
ProcessFileAdds ==
    /\ InLoop
    /\ entryIsKept
    /\ fs[targetPath].kind = "file"
    /\ ~wouldExceedTotalSize(visit(stats), fileSize)
    /\ ~fileLimitReached(countFile(visit(stats), fileSize))
    /\ stats' = countFile(visit(stats), fileSize)
    /\ Continue(attachFile(Top.node,
                           fileChild(targetPath, Top.node, query.local_path, fileSize)))
    /\ UNCHANGED <<fs, call, query, pc, readdirs, root_node, result, run, first_result, error, parked, others>>

newChildDirectory == childDirectory(Top.node, targetPath, symlink_path, query.local_path)

\* lines 197-213: processNode is called on the child and lists it.
EnterDirectory ==
    /\ InLoop
    /\ entryIsKept
    /\ fs[targetPath].kind = "dir"
    /\ ~limitExceeded(visit(stats), newChildDirectory.depth)
    /\ stats' = visit(stats)
    /\ stack' = Append(stack, Frame(newChildDirectory, readdir(targetPath)))
    /\ readdirs' = readdirs + 1
    /\ UNCHANGED <<fs, call, query, pc, root_node, result, run, first_result, error, parked, others>>

\* lines 197-217 with lines 153-155: processNode returns at once on the
\* child, which is attached with no children.
PruneDirectory ==
    /\ InLoop
    /\ entryIsKept
    /\ fs[targetPath].kind = "dir"
    /\ limitExceeded(visit(stats), newChildDirectory.depth)
    /\ stats' = visit(stats)
    /\ Continue(attachDirectory(Top.node, newChildDirectory))
    /\ UNCHANGED <<fs, call, query, pc, readdirs, root_node, result, run, first_result, error, parked, others>>

\* lines 218-220
UnsupportedEntry ==
    /\ InLoop
    /\ entryIsKept
    /\ fs[targetPath].kind = "other"
    /\ stats' = visit(stats)
    /\ pc' = "failed"
    /\ error' = "is neither a file nor a directory"
    /\ UNCHANGED <<fs, call, query, stack, readdirs, root_node, result, run, first_result, parked, others>>

\* lines 223 and 214-217: the innermost call sorts its children and
\* returns; its caller attaches the node and goes on.
ReturnNode ==
    /\ pc = "walk"
    /\ Top.idx > Len(Top.entries)
    /\ Len(stack) > 1
    /\ LET parent == stack[Len(stack) - 1]
           child  == sortChildren(Top.node)
       IN  stack' = [SubSeq(stack, 1, Len(stack) - 1) EXCEPT ![Len(stack) - 1] =
                        [@ EXCEPT !.node = attachDirectory(parent.node, child),
                                  !.idx = @ + 1]]
    /\ UNCHANGED <<fs, call, query, pc, stats, readdirs, root_node, result, run,
                   first_result, error, parked, others>>

\* line 223 on the root, then ingestQuery line 82.
FinishRoot ==
    /\ pc = "walk"
    /\ Top.idx > Len(Top.entries)
    /\ Len(stack) = 1
    /\ root_node' = sortChildren(Top.node)
    /\ result' = formatNode(fs, sortChildren(Top.node), query)
    /\ stack' = <<>>
    /\ pc' = "done"
    /\ UNCHANGED <<fs, call, query, stats, readdirs, run, first_result, error, parked, others>>

(***************************************************************************)
(* The second call over the unchanged filesystem: with a query built       *)
(* again from the same arguments, or with the query object of the first    *)
(* call.                                                                   *)
(***************************************************************************)
RunAgainEqualQuery ==
    /\ pc = "done"
    /\ run = 1
    /\ run' = 2
    /\ first_result' = result
    /\ pc' = "parse"
    /\ readdirs' = 0
    /\ root_node' = NoNode
    /\ result' = NoResult
    /\ UNCHANGED <<fs, call, query, stack, stats, error, parked, others>>

RunAgainSameQuery ==
    /\ pc = "done"
    /\ run = 1
    /\ run' = 2
    /\ first_result' = result
    /\ pc' = "apply"
    /\ readdirs' = 0
    /\ root_node' = NoNode
    /\ result' = NoResult
    /\ UNCHANGED <<fs, call, query, stack, stats, error, parked, others>>

(***************************************************************************)
(* Two calls in progress.  ingestQuery awaits the filesystem between the   *)
(* steps above, and at an await the event loop may go on with the other    *)
(* call: the two calls change places.  Every variable of a call is local   *)
(* to it (ingestQuery lines 71-80: root_node and stats_tracker are         *)
(* constants of the call).  The first run of each call is left alone, so   *)
(* that it gives the digest the call returns when nothing runs beside it.  *)
(***************************************************************************)
\* The FileSystemStats object a resumed call goes on with: its own.
sharedResumedStats(own) == stats

resumedStats(own) == own

Switch ==
    /\ parked.pc # "none"
    /\ run = 2 \/ pc \in {"done", "failed"}
    /\ call' = parked.call
    /\ query' = parked.query
    /\ pc' = parked.pc
    /\ stack' = parked.stack
    /\ stats' = resumedStats(parked.stats)
    /\ readdirs' = parked.readdirs
    /\ root_node' = parked.root_node
    /\ result' = parked.result
    /\ run' = parked.run
    /\ first_result' = parked.first_result
    /\ error' = parked.error
    /\ parked' = [call |-> call, query |-> query, pc |-> pc, stack |-> stack,
                  stats |-> stats, readdirs |-> readdirs, root_node |-> root_node,
                  result |-> result, run |-> run, first_result |-> first_result,
                  error |-> error]
    /\ UNCHANGED <<fs, others>>

Next ==
    \/ ParseQuery
    \/ ParseQueryThrows
    \/ ApplyPatterns
    \/ ApplyGitingestFile
    \/ NotFound
    \/ SingleFile
    \/ SingleFileThrows
    \/ StartDirectory
    \/ StartThrows
    \/ SkipUnsafeSymlink
    \/ SkipVisited
    \/ SkipExcluded
    \/ SkipNotIncluded
    \/ ProcessFileSkipsSize
    \/ ProcessFileOverLimit
    \/ ProcessFileAdds
    \/ EnterDirectory
    \/ PruneDirectory
    \/ UnsupportedEntry
    \/ ReturnNode
    \/ FinishRoot
    \/ RunAgainEqualQuery
    \/ RunAgainSameQuery
    \/ Switch

Spec == Init /\ [][Next]_vars

(***************************************************************************)
(* Measures of a node tree and of the filesystem, computed from the        *)
(* children and the directory entries themselves.                          *)
(***************************************************************************)
RECURSIVE SumSeq(_)
SumSeq(xs) == IF xs = <<>> THEN 0 ELSE Head(xs) + SumSeq(Tail(xs))

\* The nodes of a tree, the tree's root included, as a sequence in
\* pre-order.
RECURSIVE Nodes(_)
RECURSIVE NodesOfAll(_)
Nodes(n) == <<n>> \o NodesOfAll(n.children)

NodesOfAll(ns) == IF ns = <<>> THEN <<>> ELSE Nodes(Head(ns)) \o NodesOfAll(Tail(ns))

\* The strict descendants of n.
Descendants(n) == Tail(Nodes(n))

FilesBelow(n) == SelectSeq(Nodes(n), LAMBDA d : d.type = "FILE")

DirectoriesBelow(n) == SelectSeq(Descendants(n), LAMBDA d : d.type = "DIRECTORY")

SizesOf(ns) == [i \in 1..Len(ns) |-> ns[i].size]

NamesOf(ns) == [i \in 1..Len(ns) |-> ns[i].name]

NodeSet(n) == {Nodes(n)[i] : i \in 1..Len(Nodes(n))}

\* The tree a finished call handed to the formatter.
Finished == pc = "done" /\ root_node.type = "DIRECTORY"

FinishedNodes == IF Finished THEN NodeSet(root_node) ELSE {}

\* The FILE nodes attached so far, in the calls in progress or in the
\* finished tree.
AttachedFiles ==
    IF pc = "done" THEN Len(FilesBelow(root_node))
    ELSE SumSeq([i \in 1..Len(stack) |-> Len(FilesBelow(stack[i].node))])

\* The paths of the filesystem at or below p.
IsUnder(q, p) == Len(q) >= Len(p) /\ SubSeq(q, 1, Len(p)) = p

PathsUnder(p) == {q \in DOMAIN fs : IsUnder(q, p)}

(***************************************************************************)
(* Aggregates of the finished tree                                         *)
(***************************************************************************)
\* C1: once the traversal has finished, the size of every DIRECTORY node
\* of the tree equals the sum of the sizes of the FILE nodes below it,
\* whether or not a budget was reached during the traversal.
C1_DirectorySizeIsSumOfFiles ==
    \A n \in FinishedNodes :
        n.type = "DIRECTORY" => n.size = SumSeq(SizesOf(FilesBelow(n)))

\* A finished tree with a file at the root, a subdirectory that holds a
\* file of its own, and a directory cut off by a budget.
C1_NestedSizesSummed ==
    /\ Finished
    /\ \E c \in FinishedNodes :
          /\ c.type = "DIRECTORY"
          /\ c.depth = 1
          /\ c.size >= 1
          /\ root_node.size > c.size
    /\ \E d \in FinishedNodes :
          d.type = "DIRECTORY" /\ d.children = <<>> /\ readdir(d.path) # <<>>

\* C2: in the finished tree the file_count of every DIRECTORY node is the
\* number of FILE nodes below it and its dir_count the number of DIRECTORY
\* nodes strictly below it, a directory pruned by a budget being counted
\* although it has no children; a FILE node has file_count 1, dir_count 0
\* and no children.
C2_CountsMatchDescendants ==
    \A n \in FinishedNodes :
        IF n.type = "DIRECTORY"
        THEN /\ n.file_count = Len(FilesBelow(n))
             /\ n.dir_count = Len(DirectoriesBelow(n))
        ELSE /\ n.file_count = 1
             /\ n.dir_count = 0
             /\ n.children = <<>>

\* A finished tree of two directories below the root, the inner one
\* pruned by a budget and counted all the same.
C2_PrunedDirectoryCounted ==
    /\ Finished
    /\ root_node.dir_count = 2
    /\ root_node.file_count >= 2
    /\ \E d \in FinishedNodes :
          /\ d.type = "DIRECTORY"
          /\ d.depth = 2
          /\ d.children = <<>>
          /\ readdir(d.path) # <<>>

(***************************************************************************)
(* Determinism, symbolic links, pattern override                           *)
(***************************************************************************)
\* C3: a second run of ingestQuery over the unchanged filesystem, with a
\* query whose fields equal those of the first run, returns the same
\* triple (summary, tree, content) as the first run, character for
\* character.
C3_SecondRunReturnsSameTriple ==
    (pc = "done" /\ run = 2) => result = first_result

\* A second run has finished on a tree with files at two levels.
C3_SecondRunFinished ==
    /\ Finished
    /\ run = 2
    /\ root_node.file_count >= 2
    /\ root_node.dir_count >= 1
    /\ result = first_result
    /\ result # NoResult

\* fs.realpath of every path at or below p, where that is below p too.
CanonicalPathsUnder(p) == {realpath(fs, q) : q \in PathsUnder(p)} \cap PathsUnder(p)

\* C4: the number of directories a call enters is bounded by the number
\* of distinct canonical paths under the root, also when a directory
\* holds a symbolic link to one of its ancestors, the root included.
C4_DirectoriesEnteredBounded ==
    pc \in {"walk", "done"} =>
        readdirs <= Cardinality(CanonicalPathsUnder(ingestTarget))

endsWith(s, suffix) ==
    Len(s) >= Len(suffix) /\ SubSeq(s, Len(s) - Len(suffix) + 1, Len(s)) = suffix

NoSymlinks == \A q \in DOMAIN fs : fs[q].kind # "link"

\* No budget has cut the finished traversal short.
NoBudgetReached ==
    /\ stats.total_files < MAX_FILES
    /\ stats.total_size < MAX_TOTAL_SIZE_BYTES
    /\ \A n \in FinishedNodes : n.type = "DIRECTORY" => n.depth <= MAX_DIRECTORY_DEPTH

\* C5: with exclude patterns {"*.ts"} and include patterns {"*.ts"} given
\* to parseQuery, no budget reached and no symbolic link, every regular
\* file under the root whose name ends in .ts, in whatever directory it
\* lies, is a FILE node of the result tree.
C5_EveryTsFileRetained ==
    (/\ Finished
     /\ call.include_patterns = Patterns(<<p_star_ts>>)
     /\ call.ignore_patterns = Patterns(<<p_star_ts>>)
     /\ NoSymlinks
     /\ NoBudgetReached)
    => \A q \in PathsUnder(ingestTarget) :
           (/\ fs[q].kind = "file"
            /\ endsWith(basename(q), <<".", "t", "s">>)
            /\ Len(q) - Len(ingestTarget) - 1 <= MAX_DIRECTORY_DEPTH)
           => \E n \in FinishedNodes : n.type = "FILE" /\ n.path = q

(***************************************************************************)
(* Budgets                                                                 *)
(***************************************************************************)
\* The filesystem is the root directory with regular files only.
IsFlat == \A q \in DOMAIN fs : q = Root \/ (Len(q) = 2 /\ fs[q].kind = "file")

FlatSizes == [i \in 1..Len(readdir(Root)) |-> fs[Root \o <<readdir(Root)[i]>>].size]

\* MAX_FILES + k equally sized files, k >= 1, that together stay within
\* the total-size budget.
IsFlatOverfullEqual ==
    /\ IsFlat
    /\ Len(FlatSizes) > MAX_FILES
    /\ \A i \in 1..Len(FlatSizes) : FlatSizes[i] = FlatSizes[1]
    /\ SumSeq(FlatSizes) <= MAX_TOTAL_SIZE_BYTES

C6_RootWithinFileBudget ==
    /\ pc = "done" =>
          /\ root_node.file_count <= MAX_FILES
          /\ Len(FilesBelow(root_node)) <= MAX_FILES
    /\ (Finished /\ IsFlatOverfullEqual) => root_node.file_count = MAX_FILES

C6_NoFileAddedPastBudget ==
    (pc = "walk" /\ stats.total_files >= MAX_FILES /\ parked' = parked)
        => AttachedFiles' = AttachedFiles

\* C6: in every result tree the root's file_count is at most MAX_FILES;
\* for a flat directory of MAX_FILES + k equally sized files within the
\* total-size budget it is exactly MAX_FILES; and once the running file
\* counter has reached MAX_FILES, no step of the traversal adds a FILE
\* node anywhere.
C6_FileCountBudget ==
    []C6_RootWithinFileBudget /\ [][C6_NoFileAddedPastBudget]_vars

\* A flat directory of more than MAX_FILES equal files has been ingested:
\* the counter went past MAX_FILES, the tree holds MAX_FILES files.
C6_OverfullFlatIngested ==
    /\ Finished
    /\ IsFlatOverfullEqual
    /\ FlatSizes[1] >= 1
    /\ stats.total_files > MAX_FILES
    /\ Len(root_node.children) = MAX_FILES

\* The listing [f1, A, B] of the example: f1 leaves 2 units of the
\* budget, A has 3 units and B has 1.
SizeOrderExample == FlatFs(<<MAX_TOTAL_SIZE_BYTES - 2, 3, 1>>)

C7_SkipLeavesCountersAlone ==
    (InLoop /\ entryIsKept /\ fs[targetPath].kind = "file" /\ parked' = parked) =>
        IF stats.total_size + fileSize > MAX_TOTAL_SIZE_BYTES
        THEN /\ stats'.total_files = stats.total_files
             /\ stats'.total_size = stats.total_size
             /\ AttachedFiles' = AttachedFiles
             /\ pc' = "walk"
             /\ Len(stack') = Len(stack)
             /\ stack'[Len(stack)].idx = Top.idx + 1
        ELSE stats.total_files < MAX_FILES =>
                /\ AttachedFiles' = AttachedFiles + 1
                /\ stack'[Len(stack)].node.children =
                       Append(Top.node.children,
                              stack'[Len(stack)].node.children[Len(Top.node.children) + 1])
                /\ stack'[Len(stack)].node.children[Len(Top.node.children) + 1].path
                       = targetPath

C7_ExampleOutcome ==
    (Finished /\ fs = SizeOrderExample) =>
        /\ NamesOf(root_node.children) = <<n_f(1), n_f(3)>>
        /\ stats.total_files = 2
        /\ stats.total_size = MAX_TOTAL_SIZE_BYTES - 1

Priority(n) ==
    LET hidden == startsWith(n.name, <<".">>)
    IN  IF n.type = "FILE"
        THEN IF toLowerCase(n.name) = <<"r", "e", "a", "d", "m", "e", ".", "m", "d">> THEN 0
             ELSE IF hidden THEN 2 ELSE 1
        ELSE IF hidden THEN 4 ELSE 3

InOrder(a, b) ==
    \/ Priority(a) < Priority(b)
    \/ /\ Priority(a) = Priority(b)
       /\ localeCompare(toLowerCase(a.name), toLowerCase(b.name)) <= 0

ChildrenInOrder(n) ==
    \A i \in 1..(Len(n.children) - 1) : InOrder(n.children[i], n.children[i + 1])

AllInOrder(n) == \A d \in NodeSet(n) : d.type = "DIRECTORY" => ChildrenInOrder(d)

\* The directories whose processNode call has returned while the
\* traversal is still under way: the DIRECTORY children of the nodes of
\* the calls in progress.
ReturnedDirectories ==
    UNION {{stack[i].node.children[j] : j \in 1..Len(stack[i].node.children)} :
              i \in 1..Len(stack)}

SortExampleTree ==
    "Directory structure:\n\\-- root/\n    +-- README.md\n    +-- b.txt\n"
    \o "    +-- .env\n    +-- src/\n    \\-- .git/\n"

\* C8: in the tree handed to formatNode the children of every DIRECTORY
\* node are ordered by non-decreasing priority and, within one priority,
\* by lower-cased name; README.md, b.txt, .env, src/, .git/ come out in
\* this order whatever the listing order was; and from the return of its
\* processNode call on, a directory's children stay in that order.
C8_ChildrenSorted ==
    /\ Finished => AllInOrder(root_node)
    /\ pc = "walk" => \A d \in ReturnedDirectories : AllInOrder(d)
    /\ (Finished /\ fs \in SortFamily /\ ingestTarget = Root) =>
          /\ NamesOf(root_node.children) = <<n_readme, n_b_txt, n_env, n_src, n_git>>
          /\ result[2] = SortExampleTree

\* The example listed in the reverse of the sorted order has been
\* ingested and formatted.
C8_ReversedListingSorted ==
    /\ Finished
    /\ fs = SortFs(<<n_git, n_src, n_env, n_b_txt, n_readme>>)
    /\ ingestTarget = Root
    /\ NamesOf(root_node.children) = <<n_readme, n_b_txt, n_env, n_src, n_git>>

EndToEndSummary == "Directory: root\nFiles analyzed: 2\n\nEstimated tokens: 33"

EndToEndTree ==
    "Directory structure:\n\\-- root/\n    +-- a.md\n    \\-- sub/\n        \\-- b.py\n"

EndToEndContent == "### a.md\n'''md\n# hi\n'''\n\n### sub/b.py\n'''py\nprint(1)\n'''\n"

\* C9: for root/{a.md, sub/{b.py}} ingested with no include set and no
\* matching exclude, the tree text is "Directory structure:" followed by
\* the lines of root/, a.md, sub/ and b.py with their connectors, the
\* content text holds the block of a.md before the block of sub/b.py, and
\* the summary holds "Files analyzed: 2".
C9_EndToEndDigest ==
    (pc = "done" /\ fs \in EndToEndFamily) =>
        /\ result[1] = EndToEndSummary
        /\ result[2] = EndToEndTree
        /\ result[3] = EndToEndContent

\* The example with sub/ listed before a.md has been ingested.
C9_EndToEndIngested ==
    /\ pc = "done"
    /\ fs = EndToEndFs(<<n_sub, n_a_md>>)
    /\ result[2] = EndToEndTree
    /\ root_node.file_count = 2

IgnoredDirectoryNames == {n_git, n_node_modules, n_pycache}

\* The path has a component, other than its last, among the ignored
\* directory names.
InsideIgnoredDirectory(root, q) ==
    \E i \in (Len(root) + 1)..(Len(q) - 1) : q[i] \in IgnoredDirectoryNames

GivenPatterns ==
    {call.include_patterns.set[i] : i \in 1..Len(call.include_patterns.set)}
    \cup {call.ignore_patterns.set[i] : i \in 1..Len(call.ignore_patterns.set)}

\* Every character is alphanumeric or one of - _ . / + * @
HasOnlyListedCharacters(pattern) ==
    \A i \in 1..Len(pattern) :
        IsAlnum(pattern[i]) \/ pattern[i] \in {"-", "_", ".", "/", "+", "*", "@"}

RegularFilesUnder(p) == {q \in PathsUnder(p) : fs[q].kind = "file"}

\* The visited set and the file counter of a call hold nothing but what
\* lies under the path the call ingests.
OwnAccounting(q, st) ==
    /\ st.visited \subseteq PathsUnder(q.local_path \o q.subpath)
    /\ st.total_files <= Cardinality(RegularFilesUnder(q.local_path \o q.subpath))

\* C14: of two calls of ingestQuery with distinct queries whose steps are
\* interleaved in any order, each returns the digest it returned when it
\* ran with nothing beside it, and the visited set and the counters of
\* each hold only entries under its own path.
C14_InterleavedCallsIndependent ==
    parked.pc # "none" =>
        /\ (pc = "done" /\ run = 2) => result = first_result
        /\ (parked.pc = "done" /\ parked.run = 2) => parked.result = parked.first_result
        /\ OwnAccounting(query, stats)
        /\ OwnAccounting(parked.query, parked.stats)

\* Both calls are in the middle of their traversals, each with entries
\* visited and files counted, over paths that differ.
C14_BothCallsMidTraversal ==
    /\ pc = "walk" /\ run = 2
    /\ parked.pc = "walk" /\ parked.run = 2
    /\ stats.total_files > 0 /\ parked.stats.total_files > 0
    /\ stats.visited # {} /\ parked.stats.visited # {}
    /\ query # parked.query

(***************************************************************************)
(* The query during ingestQuery                                            *)
(***************************************************************************)
\* The query the caller built and handed to ingestQuery.
QueryGiven ==
    IF call.entry = "parseQuery" THEN parseQuery(call).query
    ELSE applyPatterns(parseLocalDirPath(call.source), call)

\* C15: from the moment ingestQuery has been called, every field of the
\* query, the contents of its exclude-pattern set included, equals the
\* value it had when the call was made, whether or not the directory
\* holds a .gitingest file.
C15_QueryLeftUnchanged ==
    (pc # "parse" /\ error # "InvalidPatternError") => query = QueryGiven

(***************************************************************************)
(* A single file                                                           *)
(***************************************************************************)
\* ingestQuery has gone past its checks of the path.
PathChecked == pc \in {"walk", "done", "failed"} /\ error # "InvalidPatternError"

Failed(message) == pc = "failed" /\ error = message /\ result = NoResult

\* C16: a digest of a single file is returned only if the path exists,
\* is a regular file and has non-empty content; if the path does not
\* exist, if the type of the query asks for a file and the path is a
\* directory, or if the content of the file is empty, ingestQuery fails
\* and returns no digest.
C16_SingleResourceFailures ==
    PathChecked =>
        /\ (pc = "done" /\ root_node.type = "FILE")
               => (/\ statKind(ingestTarget) = "file"
                   /\ content(fs, root_node) # ""
                   /\ result # NoResult)
        /\ statKind(ingestTarget) = "none" => Failed("cannot be found")
        /\ (query.type = "blob" /\ statKind(ingestTarget) = "dir")
               => Failed("is not a file")
        /\ (statKind(ingestTarget) = "file" /\ content(fs, singleFileNode) = "")
               => Failed("has no content")

\* The call on an empty file has failed.
C16_EmptyFileRejected ==
    /\ Failed("has no content")
    /\ statKind(ingestTarget) = "file"
    /\ fs[ingestTarget].size = 0

\* C17: when the single file handed to ingestQuery is a notebook that is
\* not well-formed JSON or that has an unknown cell type or output type,
\* ingestQuery fails and returns no digest.
C17_BadNotebookAloneIsFatal ==
    (/\ PathChecked
     /\ statKind(ingestTarget) = "file"
     /\ isNotebookPath(ingestTarget)
     /\ isTextFile(fs, ingestTarget)
     /\ ~processNotebook(fs, ingestTarget).ok)
    => (pc = "failed" /\ result = NoResult)

(***************************************************************************)
(* The .gitingest file                                                     *)
(***************************************************************************)
ElementsOf(s) == {s[i] : i \in 1..Len(s)}

\* The .gitingest file at the root of the traversal, NoPath if none.
ConfigPath == realpath(fs, ingestTarget \o <<n_gitingest>>)

\* The string entries of config.ignore_patterns of a .gitingest file that
\* parses as TOML; a single string is one entry.
ConfigEntries ==
    IF ConfigPath = NoPath THEN {}
    ELSE IF fs[ConfigPath].kind # "file" \/ ~fs[ConfigPath].toml.valid THEN {}
    ELSE {it.val : it \in {e \in ElementsOf(fs[ConfigPath].toml.items) : e.str}}

\* C18: from the end of applyGitingestFile on, so before the first entry
\* of a directory is examined, the exclude set of the query is its value
\* at the call united with exactly the string entries of
\* config.ignore_patterns, a single string counting as one entry and
\* entries that are not strings dropped; with a file that is missing,
\* unreadable or malformed the set is unchanged, and the call does not
\* fail on account of the file.
C18_ConfigEntriesMerged ==
    (pc \notin {"parse", "apply"} /\ error # "InvalidPatternError")
    => /\ ElementsOf(query.ignore_patterns)
              = ElementsOf(QueryGiven.ignore_patterns) \cup ConfigEntries
       /\ (pc = "failed" /\ statKind(ingestTarget) = "dir")
              => error \in {"is not a file", "is neither a file nor a directory"}

(***************************************************************************)
(* Failures the traversal recovers from                                    *)
(***************************************************************************)
\* A file whose content cannot be decoded.
Undecodable(q) == fs[q].data \in {"binary", "unreadable"}

\* A notebook that processNotebook fails on.
FailingNotebook(q) ==
    ~Undecodable(q) /\ isNotebookPath(q) /\ fs[q].data # "notebook"

\* The text that stands for the content of such a file.
RecoveredText(q) ==
    IF Undecodable(q) THEN "[Non-text file]"
    ELSE IF fs[q].data = "notebook_bad_cell"
    THEN "Error processing notebook: Error: Unknown cell type: x"
    ELSE IF fs[q].data = "notebook_bad_output"
    THEN "Error processing notebook: Error: Unknown output type: x"
    ELSE "Error processing notebook: InvalidNotebookError: Invalid JSON in notebook: "
         \o Str(AbsString(q))

\* The ingestion of a directory.
DirectoryIngestion == query.type # "blob" /\ statKind(ingestTarget) = "dir"

\* A directory ingestion fails on nothing but an entry that is neither a
\* file nor a directory.
C19_RecoveredFailuresDoNotAbort ==
    (pc = "failed" /\ error # "InvalidPatternError" /\ DirectoryIngestion)
    => error = "is neither a file nor a directory"

\* A refused link and an entry already visited add no node and change no
\* counter; the loop goes on with the next entry.
C19_SkipsLeaveTreeAndCounters ==
    (/\ InLoop
     /\ parked' = parked
     /\ (~entryIsSafe \/ targetPath \in stats.visited))
    => /\ stats' = stats
       /\ AttachedFiles' = AttachedFiles
       /\ pc' = "walk"
       /\ Len(stack') = Len(stack)
       /\ stack'[Len(stack)].node = Top.node
       /\ stack'[Len(stack)].idx = Top.idx + 1

\* An undecodable file and a failing notebook directly under the root of
\* a finished traversal that met no budget and no pattern are FILE nodes
\* of the tree, with the placeholder or the error text as content.
C19_RecoveredFilesKept ==
    (/\ Finished
     /\ NoBudgetReached
     /\ query.ignore_patterns = QueryGiven.ignore_patterns
     /\ ~call.ignore_patterns.given /\ ~call.include_patterns.given)
    => \A q \in RegularFilesUnder(ingestTarget) :
           (Len(q) = Len(ingestTarget) + 1 /\ (Undecodable(q) \/ FailingNotebook(q)))
           => \E n \in FinishedNodes :
                  /\ n.type = "FILE"
                  /\ n.path = q
                  /\ n.size = fs[q].size
                  /\ content(fs, n) = RecoveredText(q)

\* C19: a link whose target lies outside the root or does not resolve, an
\* entry whose canonical path was visited before, a file that cannot be
\* decoded and a notebook in the tree that fails to transcode never make
\* the ingestion of a directory fail; the first two add no node and
\* change no counter, the last two are kept as FILE nodes whose content
\* is a placeholder or the error text.
C19_RecoveredFailures ==
    /\ []C19_RecoveredFailuresDoNotAbort
    /\ [][C19_SkipsLeaveTreeAndCounters]_vars
    /\ []C19_RecoveredFilesKept

\* A directory with a notebook that fails to transcode has been ingested:
\* the triple is returned and holds the notebook with the error text.
C19_FailingNotebookIngested ==
    /\ Finished
    /\ result # NoResult
    /\ \E n \in FinishedNodes :
           /\ n.type = "FILE"
           /\ FailingNotebook(n.path)
           /\ content(fs, n) = RecoveredText(n.path)
    /\ root_node.file_count = 2

(***************************************************************************)
(* The net effect of the two filters                                       *)
(***************************************************************************)
\* The entry matches at least one include pattern of the query.
MatchesSomeInclude(q) ==
    \E i \in 1..Len(query.include_patterns) :
        matchPattern(relative(query.local_path, q), query.include_patterns[i])

\* The files under the root are too few and too small for a budget to
\* turn one of them away.
WithinAllBudgets ==
    /\ NoBudgetReached
    /\ Cardinality(RegularFilesUnder(ingestTarget)) <= MAX_FILES
    /\ Cardinality(RegularFilesUnder(ingestTarget)) <= MAX_TOTAL_SIZE_BYTES
    /\ \A q \in RegularFilesUnder(ingestTarget) : fs[q].size <= 1

\* C20: an entry of the root directory is kept iff it is not excluded and
\* the include set of the query is absent or empty or the entry matches
\* one of its patterns; with an empty include set no entry is skipped by
\* the include check.  Stated of a finished traversal without links that
\* no budget touches.
C20_KeptIffNotExcludedAndIncluded ==
    (Finished /\ NoSymlinks /\ WithinAllBudgets)
    => \A q \in PathsUnder(ingestTarget) :
           Len(q) = Len(ingestTarget) + 1
           => ((\E n \in FinishedNodes : n.path = q)
               <=> (/\ ~shouldExclude(q, query.local_path, query.ignore_patterns)
                    /\ (\/ ~query.has_include
                        \/ query.include_patterns = <<>>
                        \/ MatchesSomeInclude(q))))

(***************************************************************************)
(* The matcher and the two filters applied by themselves.  Init draws the  *)
(* arguments, one action applies each function.                            *)
(***************************************************************************)
MaxPatternLen == 2

MaxPathLen == 3

PatternCharacters == {"a", ".", "/", "+", "-", "*", "?"}

PathCharacters == {"a", "b", ".", "/", "+", "-"}

SeqsUpTo(S, n) == UNION {[1..k -> S] : k \in 0..n}

\* Absolute paths, base directories and patterns the filters are given.
FilterPaths ==
    {Root, Root \o <<n_sub>>, Root \o <<n_sub, n_a_ts>>, Root \o <<n_a_ts>>,
     Root \o << <<"a", "+">> >>, Root \o << <<"a", "a">> >>, Outside \o <<n_a_md>>}

FilterBases == {Root, Root \o <<n_sub>>}

FilterPatterns ==
    {<<>>, n_sub, n_sub \o <<"/">>, n_sub \o <<"/", "*">>, p_star_ts,
     <<"a", "+">>, <<"+", "a">>}

\* Sets of at most two patterns, in insertion order.
FilterPatternSets ==
    {<<>>} \cup {<<p>> : p \in FilterPatterns}
    \cup {s \in FilterPatterns \X FilterPatterns : s[1] # s[2]}

FilterArgs(function) ==
    {[function |-> function, filePath |-> filePath, basePath |-> basePath, patterns |-> patterns, is_directory |-> is_directory] :
        filePath \in FilterPaths, basePath \in FilterBases,
        patterns \in FilterPatternSets, is_directory \in BOOLEAN}

MatchArgs ==
    {[function |-> "matchPattern", string |-> string, pattern |-> pattern] :
        string \in SeqsUpTo(PathCharacters, MaxPathLen),
        pattern \in SeqsUpTo(PatternCharacters, MaxPatternLen)}

MatchInit ==
    /\ IngestIdle
    /\ args \in MatchArgs \cup FilterArgs("shouldExclude") \cup FilterArgs("shouldInclude")
    /\ returned = NoReturn
    /\ RemoteIdle
    /\ RaceIdle

\* matchPattern(string, pattern): new RegExp throws on a rewritten pattern
\* that is no regular expression.
ApplyMatchPattern ==
    /\ args.function = "matchPattern"
    /\ returned = NoReturn
    /\ returned' = [function |-> "matchPattern",
                    throws   |-> matchThrows(args.pattern),
                    value    |-> matchPattern(args.string, args.pattern)]
    /\ UNCHANGED <<args, ingestVars, remoteVars, race>>

ApplyShouldExclude ==
    /\ args.function = "shouldExclude"
    /\ returned = NoReturn
    /\ returned' = [function |-> "shouldExclude",
                    throws   |-> FALSE,
                    value    |-> shouldExclude(args.filePath, args.basePath, args.patterns)]
    /\ UNCHANGED <<args, ingestVars, remoteVars, race>>

ApplyShouldInclude ==
    /\ args.function = "shouldInclude"
    /\ returned = NoReturn
    /\ returned' = [function |-> "shouldInclude",
                    throws   |-> FALSE,
                    value    |-> shouldInclude(args.filePath, args.basePath, args.patterns)]
    /\ UNCHANGED <<args, ingestVars, remoteVars, race>>

MatchNext ==
    \/ ApplyMatchPattern
    \/ ApplyShouldExclude
    \/ ApplyShouldInclude

MatchSpec == MatchInit /\ [][MatchNext]_vars

\* The whole of s matches the glob: * stands for any run of characters,
\* ? for exactly one character, any other character for itself.
RECURSIVE GlobMatch(_, _)
GlobMatch(s, glob) ==
    IF glob = <<>> THEN s = <<>>
    ELSE IF Head(glob) = "*"
    THEN \E k \in 0..Len(s) : GlobMatch(SubSeq(s, k + 1, Len(s)), Tail(glob))
    ELSE IF s = <<>> THEN FALSE
    ELSE (Head(glob) = "?" \/ Head(glob) = Head(s)) /\ GlobMatch(Tail(s), Tail(glob))

\* The path of the filter's arguments relative to its base, and whether
\* it leaves the base.
FilterRelative == relative(args.basePath, args.filePath)

FilterEscapes == startsWith(FilterRelative, <<".", ".">>) \/ isAbsolute(FilterRelative)

\* C21: matchPattern returns true iff the whole path matches the pattern
\* read as a glob (* any run of characters, separators included and
\* possibly empty, ? exactly one character, every other character only
\* itself), and shouldExclude, for a path inside the base, returns true
\* iff some pattern of the set matches in this sense.
C21_MatcherHasGlobSemantics ==
    /\ returned.function = "matchPattern"
           => (~returned.throws /\ returned.value = GlobMatch(args.string, args.pattern))
    /\ (returned.function = "shouldExclude" /\ ~FilterEscapes)
           => (returned.value
                  <=> \E i \in 1..Len(args.patterns) :
                          GlobMatch(FilterRelative, args.patterns[i]))

\* C22: for a directory entry at the relative path r, shouldExclude is true if
\* some pattern matches r or matches r followed by a separator; a path
\* that leaves the base is excluded by shouldExclude and not included by
\* shouldInclude.
C22_DirectoryExcludedWithTrailingSeparator ==
    /\ (/\ returned.function = "shouldExclude"
        /\ args.is_directory
        /\ ~FilterEscapes
        /\ FilterRelative # <<>>)
           => ((\E i \in 1..Len(args.patterns) :
                    \/ matchPattern(FilterRelative, args.patterns[i])
                    \/ matchPattern(FilterRelative \o <<"/">>, args.patterns[i]))
               => returned.value)
    /\ (returned.function = "shouldExclude" /\ FilterEscapes) => returned.value
    /\ (returned.function = "shouldInclude" /\ FilterEscapes) => ~returned.value

(***************************************************************************)
(* Links and the root of the traversal                                     *)
(***************************************************************************)
\* C23: every node of the result tree was read from a real path inside
\* the root of the traversal, the local path of the query joined with its
\* subpath; a link whose real target lies outside that root, be it inside
\* the local path of the query, adds no node.
C23_NodesInsideTraversalRoot ==
    Finished =>
        \A n \in FinishedNodes :
            IsUnder(realpath(fs, n.path), realpath(fs, ingestTarget))

\* The regular files, each under its canonical path, that lie under the
\* root of the traversal.
CanonicalFilesUnder(p) == {q \in CanonicalPathsUnder(p) : fs[q].kind = "file"}

\* C24: in the result tree no two nodes, the root node included, stand
\* for the same canonical path, whatever the number of names (its own,
\* links to it, a link to the root of the traversal) a file or directory
\* is reached by, and no file is counted twice in the running totals.
C24_NoTwoNodesForOneRealPath ==
    Finished =>
        /\ \A i, j \in 1..Len(Nodes(root_node)) :
               i # j => realpath(fs, Nodes(root_node)[i].path)
                            # realpath(fs, Nodes(root_node)[j].path)
        /\ stats.total_files <= Cardinality(CanonicalFilesUnder(ingestTarget))

\* The nodes built so far: those of the finished tree, or those of the
\* directories being listed with what is attached to them.
NodesSoFar ==
    IF pc = "done" THEN NodeSet(root_node)
    ELSE UNION {NodeSet(stack[i].node) : i \in 1..Len(stack)}

\* processNode is about to be entered for the directory of the current
\* entry with a budget reached.
EnteredOverBudget ==
    /\ InLoop
    /\ entryIsKept
    /\ fs[targetPath].kind = "dir"
    /\ \/ newChildDirectory.depth > MAX_DIRECTORY_DEPTH
       \/ stats.total_files >= MAX_FILES
       \/ stats.total_size >= MAX_TOTAL_SIZE_BYTES

\* The step of the call in progress that enters processNode over budget
\* attaches the directory with no children, fails nothing and goes on with
\* the next entry of the same directory.
C25_OverBudgetDirectoryAttachedEmpty ==
    (EnteredOverBudget /\ parked' = parked /\ stack' # stack) =>
        /\ pc' = "walk"
        /\ error' = error
        /\ Len(stack') = Len(stack)
        /\ stack'[Len(stack)].entries = Top.entries
        /\ stack'[Len(stack)].idx = Top.idx + 1
        /\ stack'[Len(stack)].node.children
               = Append(Top.node.children, [newChildDirectory EXCEPT !.children = <<>>])
        /\ stats'.total_files = stats.total_files
        /\ stats'.total_size = stats.total_size

\* No node lies deeper than MAX_DIRECTORY_DEPTH + 1, and a directory node
\* deeper than MAX_DIRECTORY_DEPTH has no children.
C25_DepthBounded ==
    \A n \in NodesSoFar :
        /\ n.depth <= MAX_DIRECTORY_DEPTH + 1
        /\ (n.type = "DIRECTORY" /\ n.depth > MAX_DIRECTORY_DEPTH) => n.children = <<>>

\* A directory ingestion in which a directory was attached empty over
\* budget ends with the triple, not with a failure of the budget.
C25_DigestStillReturned ==
    (Finished /\ \E n \in FinishedNodes : n.type = "DIRECTORY" /\ n.children = <<>>
                                             /\ readdir(n.path) # <<>>)
    => result # NoResult

\* C25: a directory for which processNode is entered deeper than
\* MAX_DIRECTORY_DEPTH, or with the file count at MAX_FILES or the byte
\* total at MAX_TOTAL_SIZE_BYTES, is attached with no children; the
\* remaining entries of its parent are still examined and the ingestion
\* still returns its triple; no node is deeper than
\* MAX_DIRECTORY_DEPTH + 1.
C25_BudgetPruningIsLocal ==
    /\ [][C25_OverBudgetDirectoryAttachedEmpty]_vars
    /\ []C25_DepthBounded
    /\ []C25_DigestStillReturned

\* A directory was attached empty, although it has entries, because the
\* byte total had reached MAX_TOTAL_SIZE_BYTES; a file listed after it was
\* attached beside it, and the triple was returned.
C25_PrunedThenSiblingAttached ==
    /\ Finished
    /\ result # NoResult
    /\ stats.total_size >= MAX_TOTAL_SIZE_BYTES
    /\ \E i, j \in 1..Len(root_node.children) :
           /\ root_node.children[i].type = "DIRECTORY"
           /\ root_node.children[i].children = <<>>
           /\ readdir(root_node.children[i].path) # <<>>
           /\ root_node.children[i].depth <= MAX_DIRECTORY_DEPTH
           /\ root_node.children[j].type = "FILE"
           /\ \E k \in 1..Len(readdir(root_node.path)) : \E m \in 1..(k-1) :
                  /\ readdir(root_node.path)[m] = basename(root_node.children[i].path)
                  /\ readdir(root_node.path)[k] = basename(root_node.children[j].path)

\* path.join of a relative location and a name, as characters.
JoinedWith(path_str, name) ==
    IF path_str = <<>> THEN name ELSE path_str \o <<"/">> \o name

\* Child c of directory node d stands for the directory that the link
\* named c.name in d resolves to.
ReachedThroughLink(d, c) ==
    /\ c.type = "DIRECTORY"
    /\ d.path \o <<c.name>> \in DOMAIN fs
    /\ fs[d.path \o <<c.name>>].kind = "link"
    /\ realpath(fs, d.path \o <<c.name>>) = c.path

\* C26: in the result tree the relative path of every FILE node is the
\* relative path of its parent joined with the file's name; a directory
\* node reached through a symbolic link has the name of the link and the
\* link's path relative to the root, while its entries are those of the
\* link's target.
C26_RelativePathsFollowTheTree ==
    Finished =>
        \A d \in FinishedNodes : \A i \in 1..Len(d.children) :
            /\ d.children[i].type = "FILE"
                   => d.children[i].path_str = JoinedWith(d.path_str, d.children[i].name)
            /\ ReachedThroughLink(d, d.children[i])
                   => /\ d.children[i].path_str
                             = relative(query.local_path, d.path \o <<d.children[i].name>>)
                      /\ \A j \in 1..Len(d.children[i].children) :
                             d.children[i].children[j].path
                                 = d.children[i].path \o <<basename(d.children[i].children[j].path)>>

\* The sum of the sizes of the FILE nodes attached so far.
AttachedBytes ==
    IF pc = "done" THEN SumSeq(SizesOf(FilesBelow(root_node)))
    ELSE SumSeq([i \in 1..Len(stack) |-> SumSeq(SizesOf(FilesBelow(stack[i].node)))])

\* C29: while a directory is traversed and when the traversal has ended,
\* total_files is the number of FILE nodes attached so far and total_size
\* the sum of their sizes; at the end they are the file_count and the size
\* of the root node, and neither is above its maximum.
C29_TotalsAreTheAttachedFiles ==
    /\ (pc = "walk" \/ Finished)
           => /\ stats.total_files = AttachedFiles
              /\ stats.total_size = AttachedBytes
    /\ Finished
           => /\ stats.total_files = root_node.file_count
              /\ stats.total_size = root_node.size
              /\ stats.total_files <= MAX_FILES
              /\ stats.total_size <= MAX_TOTAL_SIZE_BYTES

(***************************************************************************)
(* ingestAsync on remote and local sources: the clone under TMP_BASE_PATH  *)
(* and its cleanup.  Call c has the uuid c, so that its local_path is      *)
(* TMP_BASE_PATH/c/slug.                                                   *)
(***************************************************************************)
MaxCalls == 2

\* path.dirname(local_path) and local_path of call c.
ParentDir(c) == [id |-> c, dir |-> "parent"]

CloneDir(c) == [id |-> c, dir |-> "clone"]

\* A call of ingestAsync: a URL or a local path as source, a commit or a
\* subpath to check out, an output file to write.  worker is the position
\* of the function that asyncTimeout wraps into clone.
NewCall(remote, checkout, output) ==
    [remote |-> remote, checkout |-> checkout, output |-> output,
     pc |-> "parse", worker |-> "none", repo_cloned |-> FALSE, failed |-> FALSE]

NewCalls ==
    {NewCall(remote, checkout, output) :
        remote \in BOOLEAN, checkout \in BOOLEAN, output \in BOOLEAN}

RemoteInit ==
    /\ IngestIdle
    /\ MatchIdle
    /\ RaceIdle
    /\ tmp = {}
    /\ calls \in [1..MaxCalls -> {n \in NewCalls : n.checkout => n.remote}]

\* The call goes on at pc; an exception ends the try block.
Goes(c, to) == calls' = [calls EXCEPT ![c].pc = to]

Throws(c) == calls' = [calls EXCEPT ![c].pc = "finally", ![c].failed = TRUE]

WorkerGoes(c, to) == calls' = [calls EXCEPT ![c].worker = to]

\* ingestAsync: parseQuery, and for a URL the call of clone.
ParseSource(c) ==
    /\ calls[c].pc = "parse"
    /\ \/ Throws(c)
       \/ /\ calls[c].remote
          /\ calls' = [calls EXCEPT ![c].pc = "clone", ![c].worker = "mkdir"]
       \/ /\ ~calls[c].remote
          /\ Goes(c, "ingest")
    /\ UNCHANGED <<tmp, ingestVars, matchVars, race>>

\* clone: fs.mkdir(parent_dir, {recursive: true}).
Mkdir(c) ==
    /\ calls[c].worker = "mkdir"
    /\ \/ tmp' = tmp \cup {ParentDir(c)} /\ WorkerGoes(c, "check")
       \/ tmp' = tmp /\ WorkerGoes(c, "failed")
    /\ UNCHANGED <<ingestVars, matchVars, race>>

\* clone: checkRepoExists(url).
CheckRepo(c) ==
    /\ calls[c].worker = "check"
    /\ \E found \in BOOLEAN : WorkerGoes(c, IF found THEN "git" ELSE "failed")
    /\ UNCHANGED <<tmp, ingestVars, matchVars, race>>

\* clone: git clone url local_path.
GitClone(c) ==
    /\ calls[c].worker = "git"
    /\ \/ /\ tmp' = tmp \cup {ParentDir(c), CloneDir(c)}
          /\ WorkerGoes(c, IF calls[c].checkout THEN "checkout" ELSE "done")
       \/ tmp' = tmp /\ WorkerGoes(c, "failed")
    /\ UNCHANGED <<ingestVars, matchVars, race>>

\* clone: git -C local_path sparse-checkout set / checkout.
Checkout(c) ==
    /\ calls[c].worker = "checkout"
    /\ \/ CloneDir(c) \in tmp /\ WorkerGoes(c, "done")
       \/ WorkerGoes(c, "failed")
    /\ UNCHANGED <<tmp, ingestVars, matchVars, race>>

\* await clone(clone_config): the wrapped function settled first.
CloneSettles(c) ==
    /\ calls[c].pc = "clone"
    /\ \/ /\ calls[c].worker = "done"
          /\ calls' = [calls EXCEPT ![c].pc = "ingest", ![c].repo_cloned = TRUE]
       \/ /\ calls[c].worker = "failed"
          /\ Throws(c)
    /\ UNCHANGED <<tmp, ingestVars, matchVars, race>>

\* await clone(clone_config): the timer of asyncTimeout(TIMEOUT) fired
\* first; the wrapped function goes on.
CloneTimesOut(c) ==
    /\ calls[c].pc = "clone"
    /\ calls[c].worker \notin {"done", "failed"}
    /\ Throws(c)
    /\ UNCHANGED <<tmp, ingestVars, matchVars, race>>

\* await ingestQuery(query): of a clone it finds nothing once local_path
\* is gone.
IngestSource(c) ==
    /\ calls[c].pc = "ingest"
    /\ \/ /\ calls[c].remote => CloneDir(c) \in tmp
          /\ Goes(c, IF calls[c].output THEN "write" ELSE "finally")
       \/ Throws(c)
    /\ UNCHANGED <<tmp, ingestVars, matchVars, race>>

\* await fs.writeFile(output, ...).
WriteOutput(c) ==
    /\ calls[c].pc = "write"
    /\ \/ Goes(c, "finally")
       \/ Throws(c)
    /\ UNCHANGED <<tmp, ingestVars, matchVars, race>>

\* finally: rimraf(TMP_BASE_PATH) if repo_cloned; then the call returns or
\* throws.
Cleanup(c) ==
    /\ calls[c].pc = "finally"
    /\ tmp' = IF calls[c].repo_cloned THEN {} ELSE tmp
    /\ Goes(c, IF calls[c].failed THEN "thrown" ELSE "returned")
    /\ UNCHANGED <<ingestVars, matchVars, race>>

RemoteNext ==
    \/ \E c \in DOMAIN calls : ParseSource(c)
    \/ \E c \in DOMAIN calls : Mkdir(c)
    \/ \E c \in DOMAIN calls : CheckRepo(c)
    \/ \E c \in DOMAIN calls : GitClone(c)
    \/ \E c \in DOMAIN calls : Checkout(c)
    \/ \E c \in DOMAIN calls : CloneSettles(c)
    \/ \E c \in DOMAIN calls : CloneTimesOut(c)
    \/ \E c \in DOMAIN calls : IngestSource(c)
    \/ \E c \in DOMAIN calls : WriteOutput(c)
    \/ \E c \in DOMAIN calls : Cleanup(c)

RemoteSpec == RemoteInit /\ [][RemoteNext]_vars

\* Call c is over.
Ended(c) == calls[c].pc \in {"returned", "thrown"}

\* C27: once an ingestAsync call on a remote source has returned or
\* thrown, no directory created for it under TMP_BASE_PATH exists,
\* whichever step ended the call; a call on a local source removes
\* nothing under TMP_BASE_PATH.
C27_NothingLeftUnderTmpBasePath ==
    /\ [](\A c \in DOMAIN calls :
              (calls[c].remote /\ Ended(c)) => \A d \in tmp : d.id # c)
    /\ [][\A c \in DOMAIN calls :
              (~calls[c].remote /\ calls'[c] # calls[c]) => tmp \subseteq tmp']_vars

\* C30: a step of one ingestAsync call on a remote source never removes
\* the cloned directory of another one that is cloning or traversing.
C30_CleanupSparesOtherClones ==
    [][\A c \in DOMAIN calls : \A d \in DOMAIN calls \ {c} :
           (/\ calls[c].remote
            /\ calls[d].remote
            /\ calls[c].pc \in {"clone", "ingest"}
            /\ CloneDir(c) \in tmp
            /\ calls'[d] # calls[d])
           => CloneDir(c) \in tmp']_vars

(***************************************************************************)
(* asyncTimeout: one call of a wrapped function.  The clock counts whole   *)
(* seconds; the callback of setTimeout runs when the delay has passed, at  *)
(* once or later.                                                          *)
(***************************************************************************)
MaxSeconds == 2

MaxWork == 2

MaxClock == MaxSeconds + 1

Pending == [state |-> "pending", value |-> "none"]

\* wrapper(...args) has been called with the limit seconds on a function
\* that will return, throw, or never settle (plan) after work steps.
NewRace(seconds, plan, work) ==
    [state |-> "called", seconds |-> seconds, plan |-> plan, work |-> work,
     func |-> "none", timer |-> "none", promise |-> Pending,
     delivered |-> <<>>, first |-> "none", clock |-> 0, late |-> 0]

TimeoutInit ==
    /\ IngestIdle
    /\ MatchIdle
    /\ RemoteIdle
    /\ race \in {NewRace(seconds, plan, work) :
                    seconds \in 0..MaxSeconds,
                    plan \in {"value", "error", "never"},
                    work \in 0..MaxWork}

\* The resolve and reject functions of a promise act on a settled promise
\* again.
settleAgain(promise, state, value) ==
    [state |-> state, value |-> value]

\* The resolve and reject functions of a promise: the first call settles
\* it, later calls do nothing.  Promise.race hands them to both inputs.
settle(promise, state, value) ==
    IF promise.state = "pending" THEN [state |-> state, value |-> value] ELSE promise

\* What the caller awaiting the wrapper receives: each change of the
\* promise is delivered.
deliver(delivered, before, after) ==
    IF after # before THEN Append(delivered, after.value) ELSE delivered

\* wrapper: setTimeout(..., seconds * 1000), then Promise.race on
\* func(...args) and the timeout promise.
StartRace ==
    /\ race.state = "called"
    /\ race' = [race EXCEPT !.state = "racing", !.timer = "armed", !.func = "pending"]
    /\ UNCHANGED <<ingestVars, matchVars, remoteVars>>

\* A second passes.
Tick ==
    /\ race.state = "racing"
    /\ race.clock < MaxClock
    /\ race' = [race EXCEPT !.clock = @ + 1]
    /\ UNCHANGED <<ingestVars, matchVars, remoteVars>>

\* The wrapped function does one step of its work, whether or not the
\* promise of the wrapper has settled.
FuncWorks ==
    /\ race.func = "pending"
    /\ race.work > 0
    /\ race' = [race EXCEPT !.work = @ - 1,
                            !.late = IF race.promise.state # "pending" THEN @ + 1 ELSE @]
    /\ UNCHANGED <<ingestVars, matchVars, remoteVars>>

\* The wrapped function returns or throws.
FuncSettles ==
    /\ race.func = "pending"
    /\ race.work = 0
    /\ race.plan # "never"
    /\ LET state == IF race.plan = "value" THEN "fulfilled" ELSE "rejected"
           after == settle(race.promise, state, race.plan)
       IN  race' = [race EXCEPT !.func = state,
                                !.promise = after,
                                !.delivered = deliver(@, race.promise, after),
                                !.first = IF @ = "none" THEN "func" ELSE @]
    /\ UNCHANGED <<ingestVars, matchVars, remoteVars>>

\* The callback of setTimeout: reject(new AsyncTimeoutError(...)).
TimerFires ==
    /\ race.timer = "armed"
    /\ race.clock >= race.seconds
    /\ LET after == settle(race.promise, "rejected", "AsyncTimeoutError")
       IN  race' = [race EXCEPT !.timer = "fired",
                                !.promise = after,
                                !.delivered = deliver(@, race.promise, after),
                                !.first = IF @ = "none" THEN "timer" ELSE @]
    /\ UNCHANGED <<ingestVars, matchVars, remoteVars>>

TimeoutNext ==
    \/ StartRace
    \/ Tick
    \/ FuncWorks
    \/ FuncSettles
    \/ TimerFires

\* The event loop runs every callback that is due: the clock advances, a
\* timer whose delay has passed fires, the wrapped function goes on.
TimeoutSpec ==
    /\ TimeoutInit
    /\ [][TimeoutNext]_vars
    /\ WF_vars(StartRace)
    /\ WF_vars(Tick)
    /\ WF_vars(FuncWorks)
    /\ WF_vars(FuncSettles)
    /\ WF_vars(TimerFires)

\* What the caller receives is the outcome of the wrapped function if it
\* settled before the timer fired, AsyncTimeoutError if the timer fired
\* first; nothing is received twice.
C28_FirstSettlementWins ==
    /\ Len(race.delivered) <= 1
    /\ race.first = "none" => race.delivered = <<>>
    /\ race.first = "func" => race.delivered = <<race.plan>>
    /\ race.first = "timer" => race.delivered = <<"AsyncTimeoutError">>
    /\ race.promise.state # "pending" => race.delivered = <<race.promise.value>>

\* What the caller received never changes.
C28_OutcomeKept ==
    race.delivered # <<>> => race'.delivered = race.delivered

====
